---- MODULE Spec2Model ----
(***************************************************************************)
(* A model of the journal-reflect plugin: prompt resolution                *)
(* (resolvePromptFromFile), linked-content expansion (expandLinkedFiles)   *)
(* and callout filtering (filterCallouts), as state machines over the      *)
(* plugin's state and its host collaborators (vault, metadata cache).      *)
(*                                                                         *)
(* Text is a TLA+ string; "\n" separates lines as in the source.  An       *)
(* optional value (undefined in the source) is a sequence of length 0 or 1.*)
(***************************************************************************)
EXTENDS Integers, Sequences, FiniteSets, TLC

VARIABLES
    \* ---- prompt resolution (resolvePromptFromFile) ----
    settings,      \* this.settings: the prompts map and global fields
    vault,         \* prompt files: path -> [kind, content, fm]
    noteFm,        \* frontmatter of the active note (metadata cache)
    promptKey,     \* the prompt key of the command being run
    rpc,           \* position of the resolve call
    rPath,         \* path handed to readPromptFromFile at the pending await
    rResult,       \* the ResolvedPrompt returned (optional)
    notices,       \* Notice messages shown so far, in order
    fileReads,     \* paths handed to vault.cachedRead so far, in order
    \* ---- linked-content expansion (expandLinkedFiles) ----
    excludePatterns, \* this.excludePatterns: the compiled global patterns
    xInput,        \* arguments of the top-level call, and the notes' host state
    xCache,        \* metadata cache of the notes: path -> [known, refs]
    xStack,        \* call stack of expandLinkedFiles, innermost frame last
    processedFiles,\* the Set shared by reference through the recursion
    xpc,           \* position of the top-level call
    xResult,       \* text returned by the top-level call
    xCalls,        \* number of expandLinkedFiles calls made so far
    xLog,          \* blocks appended so far (history)
    xTrace,        \* what the loop did with each reference so far (history)
    \* ---- callout filtering (filterCallouts) ----
    fIn,           \* arguments: [content, calloutTypes]
    fState,        \* loop state: [i, skipDepth, previousLineBlank, result]
    fpc,           \* position of the filterCallouts call
    fOut,          \* text returned
    \* ---- generation (generateContentWithEditor, getGeneratedContent) ----
    promptContexts,\* this.promptContexts: key -> [context, timestamp]
    now,           \* Date.now(), in milliseconds
    editor,        \* the editor: [before, left, right, after], cursor after left
    gpc,           \* position of the generateContentWithEditor call
    gLocal,        \* locals of the call in progress, and what it read (history)
    gRequests,     \* requests handed to ollamaClient.generate by the call
    gStoreReads,   \* keys the call handed to promptContexts.get (history)
    gStoreChanged, \* keys whose entry the call set or deleted (history)
    gRuns,         \* number of commands run so far
    \* ---- two generations in flight (getGeneratedContent) ----
    oGen,          \* generation -> its position, locals and what it returned
    oLog,          \* store reads and returns of the generations, in order (history)
    oChanged,      \* keys whose entry a generation set or deleted (history)
    \* ---- settings tab and commands (journal-SettingsTab.ts, onload) ----
    newSettings,   \* the tab's newSettings (optional)
    aliased,       \* newSettings and this.settings are one object
    savedData,     \* data.json: the settings last handed to saveData
    commandIds,    \* this.commandIds
    registered,    \* ids of the commands the app has for the plugin
    ollamaClient,  \* base URL of this.ollamaClient (optional)
    ppc,           \* position of the plugin's life cycle
    tabOpen,       \* the settings tab is displayed
    pendingSaves,  \* saveSettings calls suspended at saveData
    lastEvent,     \* the handler that ran last (history)
    tabSteps       \* number of settings-tab actions so far

rvars == <<settings, vault, noteFm, promptKey, rpc, rPath, rResult, notices, fileReads>>
xvars == <<excludePatterns, xInput, xCache, xStack, processedFiles, xpc, xResult,
          xCalls, xLog, xTrace>>
fvars == <<fIn, fState, fpc, fOut>>
gvars == <<promptContexts, now, editor, gpc, gLocal, gRequests, gStoreReads,
          gStoreChanged, gRuns>>
ovars == <<oGen, oLog, oChanged>>
svars == <<newSettings, aliased, savedData, commandIds, registered, ollamaClient, ppc,
          tabOpen, pendingSaves, lastEvent, tabSteps>>
pvars == <<ovars, svars>>
vars == <<rvars, xvars, fvars, gvars, pvars>>

-----------------------------------------------------------------------------
(* Strings, as the JavaScript String methods the source uses.              *)

None == <<>>
Some(v) == <<v>>

CharAt(s, i) == SubSeq(s, i, i)

IsSpace(c) == c \in {" ", "\t", "\n"}

IsWordChar(c) ==
    c \in {"a","b","c","d","e","f","g","h","i","j","k","l","m","n","o","p","q",
           "r","s","t","u","v","w","x","y","z",
           "A","B","C","D","E","F","G","H","I","J","K","L","M","N","O","P","Q",
           "R","S","T","U","V","W","X","Y","Z",
           "0","1","2","3","4","5","6","7","8","9","_"}

\* s.startsWith(p) at 1-based position i
MatchesAt(s, p, i) == i + Len(p) - 1 <= Len(s) /\ SubSeq(s, i, i + Len(p) - 1) = p

\* 1-based position of the first occurrence of p in s at or after i; 0 if none
RECURSIVE FindFrom(_, _, _)
FindFrom(s, p, i) ==
    IF i + Len(p) - 1 > Len(s) THEN 0
    ELSE IF MatchesAt(s, p, i) THEN i
    ELSE FindFrom(s, p, i + 1)

\* String.prototype.indexOf: 0-based, -1 if absent
IndexOf(s, p) == FindFrom(s, p, 1) - 1

\* String.prototype.substring(from, to), 0-based, end exclusive
Substring(s, from, to) == SubSeq(s, from + 1, to)

RECURSIVE TrimStart(_)
TrimStart(s) ==
    IF Len(s) > 0 /\ IsSpace(CharAt(s, 1)) THEN TrimStart(SubSeq(s, 2, Len(s))) ELSE s

RECURSIVE TrimEnd(_)
TrimEnd(s) ==
    IF Len(s) > 0 /\ IsSpace(CharAt(s, Len(s))) THEN TrimEnd(SubSeq(s, 1, Len(s) - 1)) ELSE s

Trim(s) == TrimEnd(TrimStart(s))

\* s.split("\n")
RECURSIVE SplitLines(_)
SplitLines(s) ==
    LET nl == FindFrom(s, "\n", 1) IN
    IF nl = 0 THEN <<s>>
    ELSE <<SubSeq(s, 1, nl - 1)>> \o SplitLines(SubSeq(s, nl + 1, Len(s)))

\* lines.join("\n")
RECURSIVE JoinLines(_)
JoinLines(lines) ==
    IF Len(lines) = 0 THEN ""
    ELSE IF Len(lines) = 1 THEN lines[1]
    ELSE lines[1] \o "\n" \o JoinLines(Tail(lines))

\* ">".repeat(n)
RECURSIVE Repeat(_, _)
Repeat(s, n) == IF n <= 0 THEN "" ELSE s \o Repeat(s, n - 1)

RECURSIVE ToLowerCase(_)
ToLowerCase(s) ==
    LET up == "ABCDEFGHIJKLMNOPQRSTUVWXYZ"
        lo == "abcdefghijklmnopqrstuvwxyz"
        c  == CharAt(s, 1)
        k  == FindFrom(up, c, 1)
    IN IF Len(s) = 0 THEN ""
       ELSE (IF k = 0 THEN c ELSE CharAt(lo, k)) \o ToLowerCase(SubSeq(s, 2, Len(s)))

\* .map((t) => t.trim())
TrimAll(seq) == [i \in 1..Len(seq) |-> Trim(seq[i])]

\* .map((line) => `${prefix} ${line}`)
QuoteAll(prefix, seq) == [i \in 1..Len(seq) |-> prefix \o " " \o seq[i]]

Range(seq) == {seq[i] : i \in 1..Len(seq)}

-----------------------------------------------------------------------------
(* JavaScript values as found in YAML frontmatter.  Numbers are held in    *)
(* tenths (7 is 0.7, 20480 is 2048); the inputs of the model carry at most *)
(* one fractional digit.  An object is a sequence of [k, v] entries.       *)

Und      == [t |-> "undefined", s |-> "", n |-> 0, l |-> <<>>, m |-> <<>>]
JNull    == [t |-> "null",      s |-> "", n |-> 0, l |-> <<>>, m |-> <<>>]
JStr(x)  == [t |-> "string",    s |-> x,  n |-> 0, l |-> <<>>, m |-> <<>>]
JNum(x)  == [t |-> "number",    s |-> "", n |-> x, l |-> <<>>, m |-> <<>>]
JBool(b) == [t |-> "boolean",   s |-> "", n |-> IF b THEN 1 ELSE 0, l |-> <<>>, m |-> <<>>]
JArr(xs) == [t |-> "array",     s |-> "", n |-> 0, l |-> xs,   m |-> <<>>]
JObj(es) == [t |-> "object",    s |-> "", n |-> 0, l |-> <<>>, m |-> es]

\* obj[key], undefined when the key is absent
RECURSIVE ObjGet(_, _)
ObjGet(entries, key) ==
    IF Len(entries) = 0 THEN Und
    ELSE IF entries[1].k = key THEN entries[1].v
    ELSE ObjGet(Tail(entries), key)

\* JavaScript truthiness
Truthy(v) ==
    CASE v.t = "undefined" -> FALSE
      [] v.t = "null"      -> FALSE
      [] v.t = "string"    -> v.s # ""
      [] v.t = "number"    -> v.n # 0
      [] v.t = "boolean"   -> v.n = 1
      [] OTHER             -> TRUE

IsDigit(c) == c \in {"0","1","2","3","4","5","6","7","8","9"}
DigitVal(c) == FindFrom("0123456789", c, 1) - 1

RECURSIVE DigitsEnd(_, _)
DigitsEnd(s, i) == IF i <= Len(s) /\ IsDigit(CharAt(s, i)) THEN DigitsEnd(s, i + 1) ELSE i

RECURSIVE DigitsValue(_)
DigitsValue(d) ==
    IF Len(d) = 0 THEN 0
    ELSE DigitsValue(SubSeq(d, 1, Len(d) - 1)) * 10 + DigitVal(CharAt(d, Len(d)))

\* Number.parseFloat on a trimmed string: None is NaN, Some(n) is n tenths
ParseFloat(s) ==
    LET signed == Len(s) > 0 /\ CharAt(s, 1) \in {"-", "+"}
        i0     == IF signed THEN 2 ELSE 1
        i1     == DigitsEnd(s, i0)
        dot    == i1 <= Len(s) /\ CharAt(s, i1) = "."
        i2     == IF dot THEN DigitsEnd(s, i1 + 1) ELSE i1
        whole  == SubSeq(s, i0, i1 - 1)
        frac   == IF dot THEN SubSeq(s, i1 + 1, i2 - 1) ELSE ""
        tenths == DigitsValue(whole) * 10 + (IF Len(frac) > 0 THEN DigitVal(CharAt(frac, 1)) ELSE 0)
    IN IF Len(whole) = 0 /\ Len(frac) = 0 THEN None
       ELSE Some(IF signed /\ CharAt(s, 1) = "-" THEN 0 - tenths ELSE tenths)

\* String(value) for the values parseFiniteNumber can meet
RECURSIVE JoinComma(_)
JoinComma(xs) ==
    IF Len(xs) = 0 THEN ""
    ELSE IF Len(xs) = 1 THEN xs[1]
    ELSE xs[1] \o "," \o JoinComma(Tail(xs))

JsString(v) ==
    CASE v.t = "string"  -> v.s
      [] v.t = "boolean" -> IF v.n = 1 THEN "true" ELSE "false"
      [] v.t = "array"   -> JoinComma(v.l)
      [] OTHER           -> "[object Object]"

RECURSIVE getFrontmatterValue(_, _)
getFrontmatterValue(frontmatter, keys) ==
    IF Len(keys) = 0 THEN Und
    ELSE IF ObjGet(frontmatter, keys[1]).t # "undefined" THEN ObjGet(frontmatter, keys[1])
    ELSE getFrontmatterValue(frontmatter, Tail(keys))

parseFiniteNumber(value) ==
    IF value.t \in {"undefined", "null"} THEN None
    ELSE IF value.t = "number" THEN Some(value.n)
    ELSE ParseFloat(Trim(JsString(value)))

\* a variant that accepts every finite number
parsePositiveIntegerAnyNumber(value) == parseFiniteNumber(value)

parsePositiveInteger(value) ==
    LET parsed == parseFiniteNumber(value) IN
    IF parsed = None THEN None
    ELSE IF parsed[1] % 10 = 0 /\ parsed[1] > 0 THEN parsed
    ELSE None

parseBoolean(value) ==
    IF value.t \in {"undefined", "null"} THEN None
    ELSE IF value.t = "boolean" THEN Some(value.n = 1)
    ELSE IF value.t = "string" THEN
        LET normalized == ToLowerCase(Trim(value.s)) IN
        IF normalized = "true" THEN Some(TRUE)
        ELSE IF normalized = "false" THEN Some(FALSE)
        ELSE None
    ELSE None

\* constraint is the set of the values the predicate accepts
parseParameterWithConstraint(frontmatter, keys, constraint) ==
    LET candidate == parseFiniteNumber(getFrontmatterValue(frontmatter, keys)) IN
    IF candidate # None /\ candidate[1] \in constraint THEN candidate ELSE None

\* a ?? b ?? c over the keys of a frontmatter object
RECURSIVE Coalesce(_, _)
Coalesce(frontmatter, keys) ==
    IF Len(keys) = 0 THEN Und
    ELSE IF ObjGet(frontmatter, keys[1]).t \notin {"undefined", "null"}
         THEN ObjGet(frontmatter, keys[1])
    ELSE Coalesce(frontmatter, Tail(keys))

-----------------------------------------------------------------------------
(* Exclusion patterns.  A compiled RegExp is held as its source string.    *)
(* The patterns of the model are an optional leading "^" followed by       *)
(* literal characters, "\" escaping the next one; an unescaped "[" or "("  *)
(* is never closed and so does not compile.                                *)

RECURSIVE HasOpenBracket(_)
HasOpenBracket(p) ==
    IF Len(p) = 0 THEN FALSE
    ELSE IF CharAt(p, 1) = "\\" THEN HasOpenBracket(SubSeq(p, 3, Len(p)))
    ELSE IF CharAt(p, 1) \in {"[", "("} THEN TRUE
    ELSE HasOpenBracket(SubSeq(p, 2, Len(p)))

\* new RegExp(pattern) does not throw
PatternCompiles(p) == ~HasOpenBracket(p)

RECURSIVE Unescape(_)
Unescape(p) ==
    IF Len(p) = 0 THEN ""
    ELSE IF CharAt(p, 1) = "\\" THEN CharAt(p, 2) \o Unescape(SubSeq(p, 3, Len(p)))
    ELSE CharAt(p, 1) \o Unescape(SubSeq(p, 2, Len(p)))

\* pattern.test(text)
RegExpTest(p, text) ==
    IF Len(p) > 0 /\ CharAt(p, 1) = "^"
    THEN MatchesAt(text, Unescape(SubSeq(p, 2, Len(p))), 1)
    ELSE FindFrom(text, Unescape(p), 1) > 0

NonEmpty(str) == Len(str) > 0

\* [threw, compiled]: threw when .split is called on a value that has none
compileExcludePatterns(excludePatternsRaw) ==
    IF ~Truthy(excludePatternsRaw) THEN [threw |-> FALSE, compiled |-> <<>>]
    ELSE IF excludePatternsRaw.t \notin {"array", "string"}
    THEN [threw |-> TRUE, compiled |-> <<>>]
    ELSE LET patternList ==
                 IF excludePatternsRaw.t = "array" THEN excludePatternsRaw.l
                 ELSE SelectSeq(TrimAll(SplitLines(excludePatternsRaw.s)), NonEmpty)
         IN [threw |-> FALSE, compiled |-> SelectSeq(patternList, PatternCompiles)]

-----------------------------------------------------------------------------
(* Prompt resolution: journal-Plugin.ts resolvePromptFromFile and helpers. *)

DEFAULT_PROMPT ==
    "You are a helpful journaling assistant that helps the user reflect while they journal.\n"
    \o "You will be given a user's journal entry as markdown. Blockquotes represent past reflection questions asked by you.\n"
    \o "Your job is to read the journal and suggest a reflection question to further stimulate the writer's thoughts and guide their thinking.\n"
    \o "Return the reflection question in raw text and not a markdown blockquote.\n"
    \o "Keep your response concise and thought-provoking."

\* The object literal { prompt: promptValue }: every other field undefined
PromptOnly(text) ==
    [prompt |-> text, model |-> None, numCtx |-> None, isContinuous |-> None,
     includeLinks |-> None, excludePatterns |-> None, sourcePath |-> None,
     temperature |-> None, topP |-> None, repeatPenalty |-> None]

\* this.settings.prompts[key]
RECURSIVE PromptConfigOf(_, _)
PromptConfigOf(prompts, key) ==
    IF Len(prompts) = 0 THEN None
    ELSE IF prompts[1].k = key THEN Some(prompts[1].v)
    ELSE PromptConfigOf(Tail(prompts), key)

\* a variant that honours only the plain-string shape of the field
extractFrontmatterValueStringOnly(frontmatter, key, pKey) ==
    IF ObjGet(frontmatter, key).t = "string" /\ ObjGet(frontmatter, key).s # ""
    THEN Some(ObjGet(frontmatter, key).s)
    ELSE None

extractFrontmatterValue(frontmatter, key, pKey) ==
    IF ~Truthy(ObjGet(frontmatter, key)) THEN None
    ELSE LET value == ObjGet(frontmatter, key) IN
         IF value.t = "string" THEN Some(value.s)
         ELSE IF value.t = "object" THEN
              LET promptValue == ObjGet(value.m, pKey) IN
              IF promptValue.t = "string" THEN Some(promptValue.s) ELSE None
         ELSE None

stripFrontmatter(content) ==
    LET close == IF MatchesAt(content, "---\n", 1) THEN FindFrom(content, "\n---\n", 5) ELSE 0
    IN Trim(IF close = 0 THEN content ELSE SubSeq(content, close + 5, Len(content)))

Missing == [kind |-> "missing", content |-> "", fm |-> <<>>]

\* this.app.vault.getAbstractFileByPath(path)
FileAt(path) == IF path \in DOMAIN vault THEN vault[path] ELSE Missing

NonNegative == {val \in Int : val >= 0}
Positive == {val \in Int : val > 0}

\* [resolved, notices, reads]: the value returned, the notices shown and the
\* paths handed to cachedRead
readPromptFromFile(promptFilePath) ==
    LET promptFile  == FileAt(promptFilePath)
        frontmatter == promptFile.fm
        patterns    == compileExcludePatterns(
                           Coalesce(frontmatter,
                                    <<"excludePatterns", "exclude_patterns", "exclude-patterns">>))
    IN IF promptFile.kind \in {"file", "unreadable"}
       THEN IF promptFile.kind = "unreadable" \/ patterns.threw
            THEN [resolved |-> None,
                  notices  |-> <<"Could not read prompt file: " \o promptFilePath>>,
                  reads    |-> <<promptFilePath>>]
            ELSE [resolved |-> Some(
                      [prompt          |-> stripFrontmatter(promptFile.content),
                       model           |-> IF ObjGet(frontmatter, "model").t = "string"
                                           THEN Some(ObjGet(frontmatter, "model").s) ELSE None,
                       numCtx          |-> parsePositiveInteger(ObjGet(frontmatter, "num_ctx")),
                       isContinuous    |-> parseBoolean(Coalesce(frontmatter,
                                               <<"isContinuous", "is_continuous",
                                                 "is-continuous", "continuous">>)),
                       includeLinks    |-> parseBoolean(Coalesce(frontmatter,
                                               <<"includeLinks", "include_links", "include-links">>)),
                       excludePatterns |-> Some(patterns.compiled),
                       sourcePath      |-> Some(promptFilePath),
                       temperature     |-> parseParameterWithConstraint(frontmatter,
                                               <<"temperature", "temp">>, NonNegative),
                       topP            |-> parseParameterWithConstraint(frontmatter,
                                               <<"top_p", "topP", "top-p">>, Positive),
                       repeatPenalty   |-> parseParameterWithConstraint(frontmatter,
                                               <<"repeat_penalty", "repeatPenalty",
                                                 "repeat-penalty">>, Positive)]),
                  notices  |-> <<>>,
                  reads    |-> <<promptFilePath>>]
       ELSE [resolved |-> None,
             notices  |-> <<"Prompt file not found: " \o promptFilePath>>,
             reads    |-> <<>>]

\* a variant that never tries the configured promptFile
getDefaultPromptBuiltInOnly(key) ==
    IF PromptConfigOf(settings.prompts, key) = None
    THEN [pc |-> "threw", path |-> "", result |-> None]
    ELSE [pc |-> "done", path |-> "", result |-> Some(PromptOnly(DEFAULT_PROMPT))]

\* getDefaultPrompt up to its first await: where the call goes next
getDefaultPrompt(key) ==
    LET promptConfig == PromptConfigOf(settings.prompts, key) IN
    IF promptConfig = None
    THEN [pc |-> "threw", path |-> "", result |-> None]
    ELSE IF promptConfig[1].promptFile # None /\ promptConfig[1].promptFile[1] # ""
    THEN [pc |-> "readConfigFile", path |-> promptConfig[1].promptFile[1], result |-> None]
    ELSE [pc |-> "done", path |-> "", result |-> Some(PromptOnly(DEFAULT_PROMPT))]

\* resolvePromptFromFile up to its first await
ResolveStart ==
    /\ rpc = "idle"
    /\ LET promptValue == extractFrontmatterValue(noteFm, "prompt", promptKey)
           promptFile  == extractFrontmatterValue(noteFm, "prompt-file", promptKey)
           fallback    == getDefaultPrompt(promptKey)
       IN IF promptValue # None /\ promptValue[1] # ""
          THEN /\ rpc' = "done"
               /\ rPath' = ""
               /\ rResult' = Some(PromptOnly(promptValue[1]))
          ELSE IF promptFile # None /\ promptFile[1] # ""
          THEN /\ rpc' = "readNoteFile"
               /\ rPath' = promptFile[1]
               /\ rResult' = None
          ELSE /\ rpc' = fallback.pc
               /\ rPath' = fallback.path
               /\ rResult' = fallback.result
    /\ UNCHANGED <<settings, vault, noteFm, promptKey, notices, fileReads>>
    /\ UNCHANGED <<xvars, fvars, gvars, pvars>>

\* the await of readPromptFromFile(promptFile) for the note's prompt-file
\* returns; on null the call goes on to getDefaultPrompt
ReadNotePromptFile ==
    /\ rpc = "readNoteFile"
    /\ LET r        == readPromptFromFile(rPath)
           fallback == getDefaultPrompt(promptKey)
       IN /\ notices' = notices \o r.notices
          /\ fileReads' = fileReads \o r.reads
          /\ IF r.resolved # None
             THEN /\ rpc' = "done"
                  /\ rPath' = ""
                  /\ rResult' = r.resolved
             ELSE /\ rpc' = fallback.pc
                  /\ rPath' = fallback.path
                  /\ rResult' = fallback.result
    /\ UNCHANGED <<settings, vault, noteFm, promptKey>>
    /\ UNCHANGED <<xvars, fvars, gvars, pvars>>

\* the await of readPromptFromFile(promptConfig.promptFile) returns; on null
\* getDefaultPrompt returns the built-in default
ReadConfigPromptFile ==
    /\ rpc = "readConfigFile"
    /\ LET r == readPromptFromFile(rPath)
       IN /\ notices' = notices \o r.notices
          /\ fileReads' = fileReads \o r.reads
          /\ rpc' = "done"
          /\ rPath' = ""
          /\ rResult' = IF r.resolved # None THEN r.resolved
                        ELSE Some(PromptOnly(DEFAULT_PROMPT))
    /\ UNCHANGED <<settings, vault, noteFm, promptKey>>
    /\ UNCHANGED <<xvars, fvars, gvars, pvars>>

-----------------------------------------------------------------------------
(* Inputs of prompt resolution.                                            *)

PromptPaths == {"p1.md", "p2.md"}

Obj1(k1, v1) == <<[k |-> k1, v |-> v1]>>

\* contents a prompt file can have, with the frontmatter the metadata cache
\* holds for each
PromptFiles ==
    { [kind |-> "file", content |-> "", fm |-> <<>>],
      [kind |-> "file", content |-> "---\nmodel: m1\n---\n",
       fm |-> Obj1("model", JStr("m1"))],
      [kind |-> "file", content |-> "Ask one question.", fm |-> <<>>],
      [kind |-> "file",
       content |-> "---\nmodel: m1\nnum_ctx: 2048\ncontinuous: true\ntemp: 0.7\n---\nBe kind.\n",
       fm |-> Obj1("model", JStr("m1")) \o Obj1("num_ctx", JNum(20480))
              \o Obj1("continuous", JBool(TRUE)) \o Obj1("temp", JNum(7))],
      [kind |-> "file", content |-> "---\nexclude_patterns: 5\n---\nBe brief.",
       fm |-> Obj1("exclude_patterns", JNum(50))],
      [kind |-> "file",
       content |-> "---\nexclude_patterns: |\n  ^TODO\n\n  [bad\n  Done\n---\nBe brief.",
       fm |-> Obj1("exclude_patterns", JStr("^TODO\n\n[bad\nDone\n"))],
      [kind |-> "file",
       content |-> "---\nexclude_patterns:\n  - ^TODO\n  - ''\n  - Done\n---\nBe brief.",
       fm |-> Obj1("exclude_patterns", JArr(<<"^TODO", "", "Done">>))],
      [kind |-> "file",
       content |-> "---\nnum_ctx: 0\ntemperature: -0.5\ntop_p: 0\nrepeat_penalty: abc\n---\nBe brief.",
       fm |-> Obj1("num_ctx", JNum(0)) \o Obj1("temperature", JNum(-5))
              \o Obj1("top_p", JNum(0)) \o Obj1("repeat_penalty", JStr("abc"))],
      [kind |-> "file",
       content |-> "---\nnum_ctx: '4096'\ntemp: '0'\ntopP: ' 0.9'\nrepeatPenalty: 1.1\n---\nBe brief.",
       fm |-> Obj1("num_ctx", JStr("4096")) \o Obj1("temp", JStr("0"))
              \o Obj1("topP", JStr(" 0.9")) \o Obj1("repeatPenalty", JNum(11))],
      [kind |-> "file",
       content |-> "---\nmodel: m1\nnum_ctx: 2.5\ntemperature: 0\ntop-p: '-1'\nrepeat-penalty: '1.2'\ncontinuous: true\n---\nBe brief.",
       fm |-> Obj1("model", JStr("m1")) \o Obj1("num_ctx", JNum(25))
              \o Obj1("temperature", JNum(0)) \o Obj1("top-p", JStr("-1"))
              \o Obj1("repeat-penalty", JStr("1.2")) \o Obj1("continuous", JBool(TRUE))] }

VaultEntries == PromptFiles \cup
    { Missing,
      [kind |-> "folder", content |-> "", fm |-> <<>>],
      [kind |-> "unreadable", content |-> "", fm |-> <<>>] }

\* values of the note's `prompt` field
NotePrompts ==
    { Und, JStr("X"), JStr(""), JNum(10),
      JObj(Obj1("reflection", JStr("X"))),
      JObj(Obj1("reflection", JStr(""))),
      JObj(Obj1("affirmation", JStr("Y"))) }

\* values of the note's `prompt-file` field
NotePromptFiles ==
    { Und, JStr("p1.md"), JStr("p2.md"), JObj(Obj1("reflection", JStr("p1.md"))) }

ConfiguredPromptFiles == { None, Some(""), Some("p1.md"), Some("p2.md") }

PromptKeys == { "reflection", "affirmation", "gratitude" }

PromptConfig(label, file) ==
    [displayLabel |-> label, promptFile |-> file,
     calloutHeading |-> None, excludeCalloutTypes |-> None]

\* DEFAULT_SETTINGS, with the promptFile of the first prompt as configured
SettingsWith(file) ==
    [ollamaUrl |-> "http://localhost:11434", modelName |-> "llama3.1",
     excludePatterns |-> "", keepAlive |-> "10m",
     prompts |-> << [k |-> "reflection", v |-> PromptConfig("reflection question", file)],
                    [k |-> "affirmation", v |-> PromptConfig("affirmation", None)] >>]

RIdle ==
    /\ settings = SettingsWith(None)
    /\ vault = [p \in PromptPaths |-> Missing]
    /\ noteFm = <<>>
    /\ promptKey = "reflection"
    /\ rpc = "off"
    /\ rPath = ""
    /\ rResult = None
    /\ notices = <<>>
    /\ fileReads = <<>>

-----------------------------------------------------------------------------
(* journal-Utils.ts: link parsing, blockquote formatting, callout filter.  *)

\* a variant that splits at the last anchor
parseLinkReferenceLastAnchor(link) ==
    LET anchorPos ==
            IF IndexOf(link, "#") < 0 THEN -1
            ELSE (CHOOSE k \in 1..Len(link) :
                      /\ CharAt(link, k) = "#"
                      /\ \A j \in (k + 1)..Len(link) : CharAt(link, j) # "#") - 1
    IN IF anchorPos < 0 THEN [path |-> link, subpath |-> None]
       ELSE [path    |-> Substring(link, 0, anchorPos),
             subpath |-> Some(Substring(link, anchorPos + 1, Len(link)))]

parseLinkReference(link) ==
    LET anchorPos == IndexOf(link, "#") IN
    IF anchorPos < 0 THEN [path |-> link, subpath |-> None]
    ELSE [path    |-> Substring(link, 0, anchorPos),
          subpath |-> Some(Substring(link, anchorPos + 1, Len(link)))]

formatAsBlockquote(content, calloutHeading) ==
    LET lines == QuoteAll(">", SplitLines(content))
    IN JoinLines(IF calloutHeading # None /\ calloutHeading[1] # ""
                 THEN <<"> " \o calloutHeading[1]>> \o lines
                 ELSE lines)

\* a variant that quotes with a single marker at every depth
formatAsEmbedBlockquoteFlat(content, linkTarget, depth, calloutType) ==
    "> [!" \o calloutType \o "] " \o linkTarget \o "\n"
    \o JoinLines(QuoteAll(">", SplitLines(content)))

formatAsEmbedBlockquote(content, linkTarget, depth, calloutType) ==
    LET prefix == Repeat(">", depth + 1)
        lines == JoinLines(QuoteAll(prefix, SplitLines(content)))
        calloutHeader == prefix \o " [!" \o calloutType \o "] " \o linkTarget
    IN calloutHeader \o "\n" \o lines

\* the default value of formatAsEmbedBlockquote's calloutType parameter
EmbedCalloutType == "embedded-note"

RECURSIVE SkipSpaces(_, _)
SkipSpaces(s, i) == IF i <= Len(s) /\ IsSpace(CharAt(s, i)) THEN SkipSpaces(s, i + 1) ELSE i

\* position after the longest match of (?:>\s*)* at position i
RECURSIVE MarkerRunEnd(_, _)
MarkerRunEnd(s, i) ==
    IF i <= Len(s) /\ CharAt(s, i) = ">" THEN MarkerRunEnd(s, SkipSpaces(s, i + 1)) ELSE i

\* number of ">" in the longest match of (?:>\s*)* at position i
RECURSIVE CountMarkers(_, _)
CountMarkers(s, i) ==
    IF i <= Len(s) /\ CharAt(s, i) = ">" THEN 1 + CountMarkers(s, SkipSpaces(s, i + 1)) ELSE 0

RECURSIVE WordRunEnd(_, _)
WordRunEnd(s, i) == IF i <= Len(s) /\ IsWordChar(CharAt(s, i)) THEN WordRunEnd(s, i + 1) ELSE i

\* line.match(/^((?:>\s*)+)\[!(\w+)\]/): the second group, if the line matches
CalloutMatch(line) ==
    LET e == MarkerRunEnd(line, 1)
        w == WordRunEnd(line, e + 2)
    IN IF /\ e > 1
          /\ MatchesAt(line, "[!", e)
          /\ w > e + 2
          /\ MatchesAt(line, "]", w)
       THEN Some(SubSeq(line, e + 2, w - 1))
       ELSE None

\* depth of a line, as filterCallouts counts it
LineDepth(line) == CountMarkers(TrimStart(line), 1)

\* the excluded types: non-blank trimmed lines of the setting
CalloutTypeList(calloutTypes) == SelectSeq(TrimAll(SplitLines(calloutTypes)), NonEmpty)

\* a variant that keeps skipping until a blank line, whatever the depth
FilterStepUntilBlank(st, line, types) ==
    LET depth        == LineDepth(line)
        isBlank      == depth = 0 /\ Len(Trim(line)) = 0
        calloutMatch == CalloutMatch(line)
        excluded ==
            /\ calloutMatch # None
            /\ \E k \in 1..Len(types) : ToLowerCase(types[k]) = ToLowerCase(calloutMatch[1])
    IN IF st.skipDepth >= 0 /\ ~isBlank
       THEN [st EXCEPT !.previousLineBlank = isBlank, !.i = st.i + 1]
       ELSE IF excluded
       THEN [st EXCEPT !.skipDepth = depth, !.previousLineBlank = isBlank, !.i = st.i + 1]
       ELSE [skipDepth |-> -1, previousLineBlank |-> isBlank,
             result |-> Append(st.result, line), kept |-> Append(st.kept, st.i),
             i |-> st.i + 1]

\* a variant that pushes the line that ends a skip without looking at its type
FilterStepNoRecheck(st, line, types) ==
    LET depth        == LineDepth(line)
        isBlank      == depth = 0 /\ Len(Trim(line)) = 0
        calloutMatch == CalloutMatch(line)
        keepSkipping ==
            /\ st.skipDepth >= 0
            /\ \/ depth > st.skipDepth
               \/ depth = st.skipDepth /\ calloutMatch = None
               \/ depth = st.skipDepth /\ calloutMatch # None /\ ~st.previousLineBlank
        excluded ==
            /\ st.skipDepth < 0
            /\ calloutMatch # None
            /\ \E k \in 1..Len(types) : ToLowerCase(types[k]) = ToLowerCase(calloutMatch[1])
    IN IF keepSkipping
       THEN [st EXCEPT !.previousLineBlank = isBlank, !.i = st.i + 1]
       ELSE IF excluded
       THEN [st EXCEPT !.skipDepth = depth, !.previousLineBlank = isBlank, !.i = st.i + 1]
       ELSE [skipDepth |-> -1, previousLineBlank |-> isBlank,
             result |-> Append(st.result, line), kept |-> Append(st.kept, st.i),
             i |-> st.i + 1]

\* a variant in which only deeper lines are skipped
FilterStepDeeperOnly(st, line, types) ==
    LET depth        == LineDepth(line)
        isBlank      == depth = 0 /\ Len(Trim(line)) = 0
        calloutMatch == CalloutMatch(line)
        excluded ==
            /\ calloutMatch # None
            /\ \E k \in 1..Len(types) : ToLowerCase(types[k]) = ToLowerCase(calloutMatch[1])
    IN IF st.skipDepth >= 0 /\ depth > st.skipDepth
       THEN [st EXCEPT !.previousLineBlank = isBlank, !.i = st.i + 1]
       ELSE IF excluded
       THEN [st EXCEPT !.skipDepth = depth, !.previousLineBlank = isBlank, !.i = st.i + 1]
       ELSE [skipDepth |-> -1, previousLineBlank |-> isBlank,
             result |-> Append(st.result, line), kept |-> Append(st.kept, st.i),
             i |-> st.i + 1]

\* one iteration of the loop of filterCallouts over `line`, the line of
\* index st.i; kept lists the indexes of the lines pushed to result
FilterStep(st, line, types) ==
    LET depth        == LineDepth(line)
        isBlank      == depth = 0 /\ Len(Trim(line)) = 0
        calloutMatch == CalloutMatch(line)
        keepSkipping ==
            /\ st.skipDepth >= 0
            /\ \/ depth > st.skipDepth
               \/ depth = st.skipDepth /\ calloutMatch = None
               \/ depth = st.skipDepth /\ calloutMatch # None /\ ~st.previousLineBlank
        excluded ==
            /\ calloutMatch # None
            /\ \E k \in 1..Len(types) : ToLowerCase(types[k]) = ToLowerCase(calloutMatch[1])
    IN IF keepSkipping
       THEN [st EXCEPT !.previousLineBlank = isBlank, !.i = st.i + 1]
       ELSE IF excluded
       THEN [st EXCEPT !.skipDepth = depth, !.previousLineBlank = isBlank, !.i = st.i + 1]
       ELSE [skipDepth |-> -1, previousLineBlank |-> isBlank,
             result |-> Append(st.result, line), kept |-> Append(st.kept, st.i),
             i |-> st.i + 1]

FilterStart ==
    [skipDepth |-> -1, previousLineBlank |-> FALSE, result |-> <<>>, kept |-> <<>>, i |-> 1]

RECURSIVE FilterLoop(_, _, _)
FilterLoop(st, lines, types) ==
    IF st.i > Len(lines) THEN st
    ELSE FilterLoop(FilterStep(st, lines[st.i], types), lines, types)

filterCallouts(content, calloutTypes) ==
    IF Len(Trim(calloutTypes)) = 0 \/ Len(CalloutTypeList(calloutTypes)) = 0 THEN content
    ELSE JoinLines(FilterLoop(FilterStart, SplitLines(content),
                              CalloutTypeList(calloutTypes)).result)

\* filterCallouts is entered: the early returns, or the loop starts
FilterCall ==
    /\ fpc = "idle"
    /\ IF Len(Trim(fIn.calloutTypes)) = 0 \/ Len(CalloutTypeList(fIn.calloutTypes)) = 0
       THEN /\ fpc' = "done"
            /\ fOut' = fIn.content
            /\ UNCHANGED fState
       ELSE /\ fpc' = "loop"
            /\ fState' = FilterStart
            /\ UNCHANGED fOut
    /\ UNCHANGED fIn
    /\ UNCHANGED <<rvars, xvars, gvars, pvars>>

\* one iteration of `for (const line of lines)`
FilterLine ==
    /\ fpc = "loop"
    /\ fState.i <= Len(SplitLines(fIn.content))
    /\ fState' = FilterStep(fState, SplitLines(fIn.content)[fState.i],
                            CalloutTypeList(fIn.calloutTypes))
    /\ UNCHANGED <<fIn, fpc, fOut>>
    /\ UNCHANGED <<rvars, xvars, gvars, pvars>>

\* the loop is over: result.join("\n") is returned
FilterReturn ==
    /\ fpc = "loop"
    /\ fState.i > Len(SplitLines(fIn.content))
    /\ fpc' = "done"
    /\ fOut' = JoinLines(fState.result)
    /\ UNCHANGED <<fIn, fState>>
    /\ UNCHANGED <<rvars, xvars, gvars, pvars>>

FIdle ==
    /\ fIn = [content |-> "", calloutTypes |-> ""]
    /\ fState = FilterStart
    /\ fpc = "off"
    /\ fOut = ""

-----------------------------------------------------------------------------
(* Linked-content expansion: journal-Plugin.ts expandLinkedFiles.          *)

NestingLimit == 2

\* a variant whose limit is one level later
DepthLimitReachedOneLater(depth) == depth >= NestingLimit + 1

DepthLimitReached(depth) == depth >= NestingLimit

\* the notes of the vault
NotePaths == {"A.md", "B.md", "C.md", "D.md", "H.md", "Linked.md", "notes/draft.md",
              "notes/done.md"}

RootNote == "A.md"

\* what vault.cachedRead returns for a note
NoteContent(path) ==
    CASE path = "A.md"           -> "A text"
      [] path = "B.md"           -> "B line 1\nB line 2"
      [] path = "C.md"           -> "C text"
      [] path = "D.md"           -> "D text"
      [] path = "H.md"           -> "intro ![[C]]\n# One\none\n## Sub\nsub\n# Two\ntwo ^blk"
      [] path = "Linked.md"      -> "World"
      [] path = "notes/draft.md" -> "draft"
      [] OTHER                   -> "done"

\* metadataCache.getFirstLinkpathDest(path, sourcePath): a vault path, or a
\* note name without its extension
LinkDest(path, sourcePath) ==
    IF path \in NotePaths THEN Some(path)
    ELSE IF (path \o ".md") \in NotePaths THEN Some(path \o ".md")
    ELSE None

\* a LinkCache / EmbedCache entry of the metadata cache
Link(target, display)  == [link |-> target, displayText |-> display, embed |-> FALSE]
Embed(target, display) == [link |-> target, displayText |-> display, embed |-> TRUE]

IsPlainLink(ref) == ~ref.embed
IsEmbed(ref) == ref.embed

\* fileCache.links and fileCache.embeds, each in document order
CacheLinks(refs) == SelectSeq(refs, IsPlainLink)
CacheEmbeds(refs) == SelectSeq(refs, IsEmbed)

\* a variant that takes the plain links whatever includeLinks is
AllLinksUnconditional(refs, includeLinks) == CacheLinks(refs) \o CacheEmbeds(refs)

\* allLinks of expandLinkedFiles
AllLinks(refs, includeLinks) ==
    (IF includeLinks THEN CacheLinks(refs) ELSE <<>>) \o CacheEmbeds(refs)

shouldExcludeLink(linkCache, additionalPatterns) ==
    LET textToCheck == "[" \o linkCache.displayText \o "](" \o linkCache.link \o ")"
        allPatterns == excludePatterns \o additionalPatterns
    IN \E k \in 1..Len(allPatterns) : RegExpTest(allPatterns[k], textToCheck)

RECURSIVE TrimHashes(_)
TrimHashes(s) == IF Len(s) > 0 /\ CharAt(s, 1) = "#" THEN TrimHashes(SubSeq(s, 2, Len(s))) ELSE s

\* the headings of the metadata cache: [heading, level, start, end], offsets
\* into the content, end being the offset after the heading line
RECURSIVE HeadingsFrom(_, _, _)
HeadingsFrom(lines, k, offset) ==
    IF k > Len(lines) THEN <<>>
    ELSE LET line   == lines[k]
             hashes == Len(line) - Len(TrimHashes(line))
             rest   == HeadingsFrom(lines, k + 1, offset + Len(line) + 1)
         IN IF hashes >= 1 /\ hashes <= 6 /\ MatchesAt(line, " ", hashes + 1)
            THEN <<[heading |-> Trim(SubSeq(line, hashes + 1, Len(line))),
                    level |-> hashes, start |-> offset, end |-> offset + Len(line)]>> \o rest
            ELSE rest

CacheHeadings(content) == HeadingsFrom(SplitLines(content), 1, 0)

\* cache.blocks[blockId].position.start.line: the 0-based line that ends
\* with the block marker, if any
RECURSIVE BlockLineFrom(_, _, _)
BlockLineFrom(lines, k, blockId) ==
    IF k > Len(lines) THEN None
    ELSE LET marker == " ^" \o blockId
             line   == lines[k]
         IN IF Len(line) >= Len(marker) /\ MatchesAt(line, marker, Len(line) - Len(marker) + 1)
            THEN Some(k - 1)
            ELSE BlockLineFrom(lines, k + 1, blockId)

\* subpath.replace(/%20/g, " ")
RECURSIVE DecodeSpaces(_)
DecodeSpaces(s) ==
    IF Len(s) = 0 THEN ""
    ELSE IF MatchesAt(s, "%20", 1) THEN " " \o DecodeSpaces(SubSeq(s, 4, Len(s)))
    ELSE CharAt(s, 1) \o DecodeSpaces(SubSeq(s, 2, Len(s)))

\* offset of the first heading after index k of level <= level, or the length
RECURSIVE SectionEnd(_, _, _, _)
SectionEnd(headings, k, level, length) ==
    IF k > Len(headings) THEN length
    ELSE IF headings[k].level <= level THEN headings[k].start
    ELSE SectionEnd(headings, k + 1, level, length)

RECURSIVE FindHeading(_, _, _)
FindHeading(headings, k, name) ==
    IF k > Len(headings) THEN 0
    ELSE IF headings[k].heading = name THEN k
    ELSE FindHeading(headings, k + 1, name)

extractSubpathContent(file, fileContent, subpath) ==
    IF file \in xInput.uncached THEN fileContent
    ELSE IF MatchesAt(subpath, "^", 1)
    THEN LET block == BlockLineFrom(SplitLines(fileContent), 1, SubSeq(subpath, 2, Len(subpath)))
         IN IF block # None THEN SplitLines(fileContent)[block[1] + 1] ELSE fileContent
    ELSE LET headings == CacheHeadings(fileContent)
             k        == FindHeading(headings, 1, DecodeSpaces(subpath))
         IN IF k > 0
            THEN Trim(Substring(fileContent, headings[k].end,
                                SectionEnd(headings, k + 1, headings[k].level, Len(fileContent))))
            ELSE fileContent

\* the frame of a call expandLinkedFiles(file, content, includeLinks,
\* pathPatterns, depth, processedFiles) once it reaches its loop or returns
\* early (allLinks is then empty); refs is the file's metadata cache
NewFrame(file, content, depth, refs) ==
    [file           |-> file,
     content        |-> content,
     expanded       |-> content,
     depth          |-> depth,
     allLinks       |-> IF DepthLimitReached(depth) \/ file \in xInput.uncached THEN <<>>
                        ELSE AllLinks(refs, xInput.includeLinks),
     i              |-> 1,
     processedLinks |-> {}]

\* processedFiles after the call's entry: the file is added below the limit
MarkProcessed(processed, file, depth) ==
    IF DepthLimitReached(depth) THEN processed ELSE processed \cup {file}

\* a variant that leaves both to their defaults
RecursiveArgsDefaults(depth) == [depth |-> 0, processedFiles |-> {}]

\* [depth, processedFiles] handed to the recursive call
RecursiveArgs(depth) == [depth |-> depth + 1, processedFiles |-> processedFiles]

TopFrame == xStack[Len(xStack)]

CurrentLink == TopFrame.allLinks[TopFrame.i]

\* a variant in which a read never fails
LinkOutcomeAlwaysRead(f, cachedLink) ==
    LET target == LinkDest(parseLinkReference(cachedLink.link).path, f.file) IN
    IF shouldExcludeLink(cachedLink, xInput.pathPatterns) THEN "excluded"
    ELSE IF cachedLink.link \in f.processedLinks THEN "duplicate"
    ELSE IF target = None THEN "unresolved"
    ELSE IF target[1] \in processedFiles THEN "visited"
    ELSE "follow"

\* what one iteration of the loop does with cachedLink in frame f
LinkOutcome(f, cachedLink) ==
    LET target == LinkDest(parseLinkReference(cachedLink.link).path, f.file) IN
    IF shouldExcludeLink(cachedLink, xInput.pathPatterns) THEN "excluded"
    ELSE IF cachedLink.link \in f.processedLinks THEN "duplicate"
    ELSE IF target = None THEN "unresolved"
    ELSE IF target[1] \in processedFiles THEN "visited"
    ELSE IF target[1] \in xInput.unreadable THEN "unreadable"
    ELSE "follow"

TraceEntry(f, cachedLink, outcome) ==
    [source |-> f.file, link |-> cachedLink.link, embed |-> cachedLink.embed,
     depth |-> f.depth, outcome |-> outcome]

\* bounds of the metadata cache the host can hold
MaxRefs == 2
MaxEdges == 3

NoteList == <<"A.md", "B.md", "C.md", "D.md", "H.md", "Linked.md", "notes/draft.md",
              "notes/done.md">>

RECURSIVE RefCount(_)
RefCount(k) == IF k = 0 THEN 0 ELSE Len(xCache[NoteList[k]].refs) + RefCount(k - 1)

\* number of references in the metadata cache as read so far
TotalRefs == RefCount(Len(NoteList))

Min(a, b) == IF a < b THEN a ELSE b

RefLists(menu, budget) == UNION { [1..k -> menu] : k \in 0..Min(MaxRefs, budget) }

\* the call reads the file's metadata cache (getFileCache) for its links
CacheRead(file, depth) == ~DepthLimitReached(depth) /\ file \notin xInput.uncached

\* the references getFileCache can return for the file: as returned before,
\* or, the first time, any list the bounds allow
CacheChoices(file, depth) ==
    IF ~CacheRead(file, depth) \/ xCache[file].known THEN {xCache[file].refs}
    ELSE RefLists(xInput.menu, MaxEdges - TotalRefs)

CacheAfter(file, depth, refs) ==
    IF CacheRead(file, depth) THEN [xCache EXCEPT ![file] = [known |-> TRUE, refs |-> refs]]
    ELSE xCache

\* generateContentWithEditor calls expandLinkedFiles(activeNote, docContent, ...)
ExpandCall ==
    /\ xpc = "idle"
    /\ IF xInput.sourceFile = None
       THEN /\ xpc' = "done"
            /\ xResult' = xInput.content
            /\ xCalls' = 1
            /\ UNCHANGED <<xCache, xStack, processedFiles>>
       ELSE \E refs \in CacheChoices(xInput.sourceFile[1], 0) :
            /\ xpc' = "running"
            /\ xCache' = CacheAfter(xInput.sourceFile[1], 0, refs)
            /\ processedFiles' = MarkProcessed({}, xInput.sourceFile[1], 0)
            /\ xStack' = <<NewFrame(xInput.sourceFile[1], xInput.content, 0, refs)>>
            /\ xCalls' = 1
            /\ UNCHANGED xResult
    /\ UNCHANGED <<excludePatterns, xInput, xLog, xTrace>>
    /\ UNCHANGED <<rvars, fvars, gvars, pvars>>

\* one iteration of the loop that ends in `continue` or in the catch block
ExpandSkip ==
    /\ xpc = "running"
    /\ TopFrame.i <= Len(TopFrame.allLinks)
    /\ LET outcome == LinkOutcome(TopFrame, CurrentLink) IN
       /\ outcome # "follow"
       /\ xStack' = [xStack EXCEPT ![Len(xStack)] =
              [@ EXCEPT !.i = @ + 1,
                        !.processedLinks = IF outcome \in {"excluded", "duplicate"} THEN @
                                           ELSE @ \cup {CurrentLink.link}]]
       /\ xTrace' = Append(xTrace, TraceEntry(TopFrame, CurrentLink, outcome))
    /\ UNCHANGED <<excludePatterns, xInput, xCache, processedFiles, xpc, xResult, xCalls, xLog>>
    /\ UNCHANGED <<rvars, fvars, gvars, pvars>>

\* one iteration of the loop that reads the target and calls
\* expandLinkedFiles on it
ExpandFollow ==
    /\ xpc = "running"
    /\ TopFrame.i <= Len(TopFrame.allLinks)
    /\ LinkOutcome(TopFrame, CurrentLink) = "follow"
    /\ LET parsed        == parseLinkReference(CurrentLink.link)
           targetFile    == LinkDest(parsed.path, TopFrame.file)[1]
           linkedContent == NoteContent(targetFile)
           extracted     == IF parsed.subpath # None /\ parsed.subpath[1] # ""
                            THEN extractSubpathContent(targetFile, linkedContent, parsed.subpath[1])
                            ELSE linkedContent
           args          == RecursiveArgs(TopFrame.depth)
       IN \E refs \in CacheChoices(targetFile, args.depth) :
          /\ xCache' = CacheAfter(targetFile, args.depth, refs)
          /\ processedFiles' = MarkProcessed(args.processedFiles, targetFile, args.depth)
          /\ xStack' = [xStack EXCEPT ![Len(xStack)].processedLinks = @ \cup {CurrentLink.link}]
                       \o <<NewFrame(targetFile, extracted, args.depth, refs)>>
          /\ xCalls' = xCalls + 1
          /\ xTrace' = Append(xTrace, TraceEntry(TopFrame, CurrentLink, "follow"))
    /\ UNCHANGED <<excludePatterns, xInput, xpc, xResult, xLog>>
    /\ UNCHANGED <<rvars, fvars, gvars, pvars>>

\* a recursive call returns: the caller formats the text returned and
\* appends it to expandedContent
ExpandReturn ==
    /\ xpc = "running"
    /\ Len(xStack) >= 2
    /\ TopFrame.i > Len(TopFrame.allLinks)
    /\ LET callee     == TopFrame
           caller     == xStack[Len(xStack) - 1]
           cachedLink == caller.allLinks[caller.i]
           quotedContent == formatAsEmbedBlockquote(callee.expanded, cachedLink.link,
                                                    caller.depth, EmbedCalloutType)
       IN /\ xStack' = SubSeq(xStack, 1, Len(xStack) - 2)
                       \o <<[caller EXCEPT !.expanded = @ \o "\n\n" \o quotedContent,
                                           !.i = @ + 1]>>
          /\ xLog' = Append(xLog, [source |-> caller.file, target |-> callee.file,
                                   link |-> cachedLink.link, embed |-> cachedLink.embed,
                                   depth |-> caller.depth, text |-> callee.expanded])
    /\ UNCHANGED <<excludePatterns, xInput, xCache, processedFiles, xpc, xResult, xCalls, xTrace>>
    /\ UNCHANGED <<rvars, fvars, gvars, pvars>>

\* the top-level call returns expandedContent
ExpandFinish ==
    /\ xpc = "running"
    /\ Len(xStack) = 1
    /\ TopFrame.i > Len(TopFrame.allLinks)
    /\ xpc' = "done"
    /\ xResult' = TopFrame.expanded
    /\ UNCHANGED <<excludePatterns, xInput, xCache, xStack, processedFiles, xCalls, xLog, xTrace>>
    /\ UNCHANGED <<rvars, fvars, gvars, pvars>>

-----------------------------------------------------------------------------
(* Inputs of expansion: what the notes reference, the text of the active   *)
(* note, the exclusion patterns of the settings and of the prompt.         *)

NamedRefs(names) == { Link(t, t) : t \in names } \cup { Embed(t, t) : t \in names }

ExpandInputs ==
    { [content |-> "A text", menu |-> NamedRefs({"A", "B", "C", "D"}),
       settingsPatterns |-> {""}, promptPatterns |-> {<<>>},
       unreadable |-> {{}, {"C.md"}}, uncached |-> {{}}],
      [content |-> "A text", menu |-> {Link("B", "B"), Link("C", "C"), Link("C.md", "C.md")},
       settingsPatterns |-> {""}, promptPatterns |-> {<<>>},
       unreadable |-> {{}}, uncached |-> {{}, {"B.md"}}],
      [content |-> "See [[notes/draft.md|TODO: draft]] and [[notes/done.md|Done]]",
       menu |-> {Link("notes/draft.md", "TODO: draft"), Link("notes/done.md", "Done")},
       settingsPatterns |-> {"", "^TODO", "TODO:"}, promptPatterns |-> {<<>>, <<"^TODO">>},
       unreadable |-> {{}}, uncached |-> {{}}],
      [content |-> "Hello [[Linked]]", menu |-> {Link("Linked", "Linked")},
       settingsPatterns |-> {""}, promptPatterns |-> {<<>>},
       unreadable |-> {{}}, uncached |-> {{}}],
      [content |-> "A text",
       menu |-> {Embed("H#One", "H > One"), Embed("H#Missing", "H > Missing"),
                 Embed("H#^blk", "H > ^blk"), Embed("H#^none", "H > ^none"),
                 Embed("C", "C")},
       settingsPatterns |-> {""}, promptPatterns |-> {<<>>},
       unreadable |-> {{}}, uncached |-> {{}}] }

XIdle ==
    /\ excludePatterns = <<>>
    /\ xInput = [sourceFile |-> None, content |-> "", includeLinks |-> FALSE,
                 pathPatterns |-> <<>>, menu |-> {}, unreadable |-> {}, uncached |-> {}]
    /\ xCache = [p \in NotePaths |-> [known |-> FALSE, refs |-> <<>>]]
    /\ xStack = <<>>
    /\ processedFiles = {}
    /\ xpc = "off"
    /\ xResult = ""
    /\ xCalls = 0
    /\ xLog = <<>>
    /\ xTrace = <<>>

-----------------------------------------------------------------------------
(* Inputs of the callout filter.                                           *)

MaxLines == 3

FilterLines ==
    { "note", "", "> [!ai] Q", "> answer", ">> [!note] n", ">> deep",
      "> [!embedded-note] L", "> [!AI]" }

FilterContents == { JoinLines(ls) : ls \in UNION { [1..k -> FilterLines] : k \in 1..MaxLines } }

FilterTypeSettings == { "", "ai", " AI \n\nembedded-note", "note" }

\* longer notes: callouts beside and inside each other
FilterExamples ==
    { [content |-> "> [!ai] Q\n> answer\n\n> [!note] n\n> body\ntext", calloutTypes |-> "ai"],
      [content |-> "> [!note] P\n>> [!ai] x\n>> b\n>\n>> [!note] n\n>> deep", calloutTypes |-> "ai"],
      [content |-> "> [!note] P\n>> [!ai] x\n\n>> [!note] n\n>> deep", calloutTypes |-> "ai"],
      [content |-> ">> [!note] n\n> [!ai] Q\n>> deep\nnote", calloutTypes |-> "ai\nnote"],
      [content |-> "> [!ai] Q\n> [!note] n\n> body", calloutTypes |-> "AI"],
      [content |-> "> [!ai] Q\n> [!note] n\n> a\n\n> plain\n> [!tip] t", calloutTypes |-> "ai"] }

-----------------------------------------------------------------------------
(* Generation: journal-Plugin.ts generateContentWithEditor, insertContent, *)
(* getGeneratedContent and the continuation store.                         *)

CONTEXT_TTL_MS == 30 * 60 * 1000

Minute == 60 * 1000

\* Map.prototype.delete and Map.prototype.set
MapDelete(map, key) == [k \in DOMAIN map \ {key} |-> map[k]]
MapSet(map, key, value) == [k \in DOMAIN map \cup {key} |-> IF k = key THEN value ELSE map[k]]

\* a variant that builds a key for every prompt
buildContextKeyAlways(filePath, resolvedPrompt, pKey) ==
    Some(filePath \o "::"
         \o (IF resolvedPrompt.sourcePath # None /\ resolvedPrompt.sourcePath[1] # ""
             THEN resolvedPrompt.sourcePath[1] ELSE pKey))

buildContextKey(filePath, resolvedPrompt, pKey) ==
    IF resolvedPrompt.isContinuous # Some(TRUE) THEN None
    ELSE Some(filePath \o "::"
              \o (IF resolvedPrompt.sourcePath # None /\ resolvedPrompt.sourcePath[1] # ""
                  THEN resolvedPrompt.sourcePath[1] ELSE pKey))

\* a variant that evicts an entry as soon as its age reaches the time-to-live
getContextForKeyEarly(contexts, key, t) ==
    IF key = None \/ key[1] = ""
    THEN [value |-> None, contexts |-> contexts, reads |-> <<>>]
    ELSE IF key[1] \notin DOMAIN contexts
    THEN [value |-> None, contexts |-> contexts, reads |-> <<key[1]>>]
    ELSE IF t - contexts[key[1]].timestamp >= CONTEXT_TTL_MS
    THEN [value |-> None, contexts |-> MapDelete(contexts, key[1]), reads |-> <<key[1]>>]
    ELSE [value |-> Some(contexts[key[1]].context), contexts |-> contexts, reads |-> <<key[1]>>]

\* [value, contexts, reads]: the value returned, the store afterwards and the
\* keys handed to promptContexts.get; t is Date.now()
getContextForKey(contexts, key, t) ==
    IF key = None \/ key[1] = ""
    THEN [value |-> None, contexts |-> contexts, reads |-> <<>>]
    ELSE IF key[1] \notin DOMAIN contexts
    THEN [value |-> None, contexts |-> contexts, reads |-> <<key[1]>>]
    ELSE IF t - contexts[key[1]].timestamp > CONTEXT_TTL_MS
    THEN [value |-> None, contexts |-> MapDelete(contexts, key[1]), reads |-> <<key[1]>>]
    ELSE [value |-> Some(contexts[key[1]].context), contexts |-> contexts, reads |-> <<key[1]>>]

\* a variant whose time-to-live is a quarter of an hour
cullExpiredContextsQuarter(contexts, t) ==
    [k \in { x \in DOMAIN contexts : ~(t - contexts[x].timestamp > 15 * Minute) } |-> contexts[k]]

cullExpiredContexts(contexts, t) ==
    [k \in { x \in DOMAIN contexts : ~(t - contexts[x].timestamp > CONTEXT_TTL_MS) } |-> contexts[k]]

\* a variant that stores whatever list it is given
storeContextForKeyAlways(contexts, key, context, t) ==
    cullExpiredContexts(MapSet(contexts, key, [context |-> context, timestamp |-> t]), t)

\* the store after storeContextForKey(key, context); t is Date.now()
storeContextForKey(contexts, key, context, t) ==
    IF Len(context) = 0 THEN MapDelete(contexts, key)
    ELSE cullExpiredContexts(MapSet(contexts, key, [context |-> context, timestamp |-> t]), t)

\* keys whose entry differs between two stores
ChangedKeys(old, new) ==
    { k \in DOMAIN old \cup DOMAIN new :
          \/ k \notin DOMAIN old
          \/ k \notin DOMAIN new
          \/ old[k] # new[k] }

\* editor.getValue()
EditorValue(ed) == JoinLines(ed.before \o <<ed.left \o ed.right>> \o ed.after)

\* editor.replaceSelection(text) with an empty selection: the text goes in at
\* the cursor and the cursor ends after it
ReplaceSelection(ed, text) ==
    LET ins == SplitLines(ed.left \o text)
    IN [before |-> ed.before \o SubSeq(ins, 1, Len(ins) - 1),
        left   |-> ins[Len(ins)],
        right  |-> ed.right,
        after  |-> ed.after]

\* the text insertContent hands to replaceSelection
InsertText(ed, content, pKey) ==
    LET promptConfig     == PromptConfigOf(settings.prompts, pKey)
        calloutHeading   == IF promptConfig = None THEN None ELSE promptConfig[1].calloutHeading
        formattedContent == formatAsBlockquote(content, calloutHeading)
        isEmptyLine      == Trim(ed.left \o ed.right) = ""
    IN IF isEmptyLine THEN formattedContent \o "\n\n"
       ELSE "\n\n" \o formattedContent \o "\n\n"

\* this.settings.prompts[promptKey]?.displayLabel || promptKey
DisplayLabel(pKey) ==
    LET promptConfig == PromptConfigOf(settings.prompts, pKey)
    IN IF promptConfig # None /\ promptConfig[1].displayLabel # ""
       THEN promptConfig[1].displayLabel ELSE pKey

\* promptConfig?.excludeCalloutTypes || ""
ExcludeCalloutTypes(pKey) ==
    LET promptConfig == PromptConfigOf(settings.prompts, pKey)
    IN IF promptConfig # None /\ promptConfig[1].excludeCalloutTypes # None
       THEN promptConfig[1].excludeCalloutTypes[1] ELSE ""

\* a variant that takes the model of the prompt only
ModelForPromptOnly(resolvedPrompt) ==
    IF resolvedPrompt.model # None THEN resolvedPrompt.model[1] ELSE ""

\* resolvedPrompt.model || this.settings.modelName
ModelFor(resolvedPrompt) ==
    IF resolvedPrompt.model # None /\ resolvedPrompt.model[1] # ""
    THEN resolvedPrompt.model[1] ELSE settings.modelName

\* the active note of the editor; its metadata cache holds no link or embed,
\* so expandLinkedFiles returns its content
ActiveNote == "A.md"

NoLocals ==
    [noteOpen |-> TRUE, docContent |-> "", documentText |-> "", model |-> "",
     connected |-> FALSE, contextKey |-> None, entryBefore |-> None, context |-> None,
     readAt |-> 0, result |-> None, returnedAt |-> 0, returned |-> None,
     inserted |-> FALSE, editorBefore |-> editor, contextsBefore |-> promptContexts]

\* what ollamaClient.generate can resolve to: the trimmed response or null,
\* and the continuation tokens or undefined
GenerateResults ==
    { [response |-> None, context |-> None],
      [response |-> Some(""), context |-> Some(<<7>>)],
      [response |-> Some("Why?"), context |-> None],
      [response |-> Some("Why?"), context |-> Some(<<>>)],
      [response |-> Some("Why?"), context |-> Some(<<7>>)],
      [response |-> Some("So?\n\n> [!ai] Q\n[!note] n"), context |-> Some(<<8>>)] }

MaxGenerations == 2
MaxMinutes == 32

\* the command journal-<key> runs: generateContentWithEditor up to its first
\* await
GenerateCommand ==
    /\ gpc \in {"idle", "done", "threw"}
    /\ gRuns < MaxGenerations
    /\ gRuns' = gRuns + 1
    /\ \E pKey \in PromptKeys, open \in BOOLEAN :
          /\ promptKey' = pKey
          /\ gLocal' = [NoLocals EXCEPT !.noteOpen = open, !.docContent = EditorValue(editor)]
          /\ IF open
             THEN /\ gpc' = "resolving"
                  /\ rpc' = "idle"
                  /\ notices' = <<>>
             ELSE /\ gpc' = "done"
                  /\ rpc' = "off"
                  /\ notices' = <<"No file context available.">>
    /\ rPath' = ""
    /\ rResult' = None
    /\ fileReads' = <<>>
    /\ gRequests' = <<>>
    /\ gStoreReads' = <<>>
    /\ gStoreChanged' = {}
    /\ UNCHANGED <<settings, vault, noteFm, promptContexts, now, editor>>
    /\ UNCHANGED <<xvars, fvars, pvars>>

\* resolvePromptFromFile threw: the promise of generateContentWithEditor is
\* rejected
GenerateRejected ==
    /\ gpc = "resolving"
    /\ rpc = "threw"
    /\ gpc' = "threw"
    /\ UNCHANGED <<promptContexts, now, editor, gLocal, gRequests, gStoreReads,
                   gStoreChanged, gRuns>>
    /\ UNCHANGED <<rvars, xvars, fvars, pvars>>

\* resolvePromptFromFile returned: expandLinkedFiles, filterCallouts, then
\* getGeneratedContent up to the await of checkConnection
GenerateResolved ==
    /\ gpc = "resolving"
    /\ rpc = "done"
    /\ LET resolved           == rResult[1]
           expandedDocContent == gLocal.docContent
           filteredDocContent == filterCallouts(expandedDocContent, ExcludeCalloutTypes(promptKey))
           model              == ModelFor(resolved)
       IN /\ gLocal' = [gLocal EXCEPT !.documentText = filteredDocContent, !.model = model]
          /\ IF Trim(filteredDocContent) = ""
             THEN /\ notices' = Append(notices, "Document is empty. Write something first!")
                  /\ gpc' = "done"
             ELSE IF settings.ollamaUrl = "" \/ model = ""
             THEN /\ notices' = Append(notices,
                         "Ollama URL or model not configured. Please check settings.")
                  /\ gpc' = "done"
             ELSE /\ notices' = notices
                  /\ gpc' = "connecting"
    /\ UNCHANGED <<settings, vault, noteFm, promptKey, rpc, rPath, rResult, fileReads>>
    /\ UNCHANGED <<promptContexts, now, editor, gRequests, gStoreReads, gStoreChanged, gRuns>>
    /\ UNCHANGED <<xvars, fvars, pvars>>

\* checkConnection returned: on true the context is looked up and the request
\* is handed to ollamaClient.generate
ConnectionChecked ==
    /\ gpc = "connecting"
    /\ \E isConnected \in BOOLEAN :
          IF ~isConnected
          THEN /\ notices' = Append(notices,
                      "Cannot connect to Ollama. Please ensure Ollama is running.")
               /\ gpc' = "done"
               /\ UNCHANGED <<promptContexts, gLocal, gRequests, gStoreReads, gStoreChanged>>
          ELSE LET resolved   == rResult[1]
                   contextKey == buildContextKey(ActiveNote, resolved, promptKey)
                   got        == getContextForKey(promptContexts, contextKey, now)
               IN /\ notices' = Append(notices, "Generating " \o DisplayLabel(promptKey)
                                                \o " using " \o gLocal.model)
                  /\ promptContexts' = got.contexts
                  /\ gStoreReads' = gStoreReads \o got.reads
                  /\ gStoreChanged' = gStoreChanged \cup ChangedKeys(promptContexts, got.contexts)
                  /\ gLocal' = [gLocal EXCEPT
                         !.connected = TRUE,
                         !.contextKey = contextKey,
                         !.entryBefore = IF contextKey # None /\ contextKey[1] \in DOMAIN promptContexts
                                         THEN Some(promptContexts[contextKey[1]]) ELSE None,
                         !.context = got.value,
                         !.readAt = now]
                  /\ gRequests' = Append(gRequests,
                         [model |-> gLocal.model, system |-> resolved.prompt,
                          prompt |-> gLocal.documentText, numCtx |-> resolved.numCtx,
                          context |-> got.value, temperature |-> resolved.temperature,
                          topP |-> resolved.topP, repeatPenalty |-> resolved.repeatPenalty])
                  /\ gpc' = "generating"
    /\ UNCHANGED <<settings, vault, noteFm, promptKey, rpc, rPath, rResult, fileReads>>
    /\ UNCHANGED <<now, editor, gRuns>>
    /\ UNCHANGED <<xvars, fvars, pvars>>

\* ollamaClient.generate returned: the tokens are stored, getGeneratedContent
\* returns the response and generateContentWithEditor inserts it
GenerateReturned ==
    /\ gpc = "generating"
    /\ \E result \in GenerateResults :
          LET stored == IF gLocal.contextKey # None /\ result.context # None
                        THEN storeContextForKey(promptContexts, gLocal.contextKey[1],
                                                result.context[1], now)
                        ELSE promptContexts
              content == result.response
              insert  == content # None /\ content[1] # ""
          IN /\ promptContexts' = stored
             /\ gStoreChanged' = gStoreChanged \cup ChangedKeys(promptContexts, stored)
             /\ editor' = IF insert
                          THEN ReplaceSelection(editor, InsertText(editor, content[1], promptKey))
                          ELSE editor
             /\ notices' = IF insert
                           THEN Append(notices, "Inserted " \o DisplayLabel(promptKey))
                           ELSE notices
             /\ gLocal' = [gLocal EXCEPT !.result = Some(result), !.returnedAt = now,
                                         !.returned = content, !.inserted = insert]
    /\ gpc' = "done"
    /\ UNCHANGED <<settings, vault, noteFm, promptKey, rpc, rPath, rResult, fileReads>>
    /\ UNCHANGED <<now, gRequests, gStoreReads, gRuns>>
    /\ UNCHANGED <<xvars, fvars, pvars>>

\* the interval registered by registerContextReaper fires
ReapContexts ==
    /\ gpc # "off" \/ oGen # <<>>
    /\ DOMAIN promptContexts # {}
    /\ promptContexts' = cullExpiredContexts(promptContexts, now)
    /\ UNCHANGED <<now, editor, gpc, gLocal, gRequests, gStoreReads, gStoreChanged, gRuns>>
    /\ UNCHANGED <<rvars, xvars, fvars, pvars>>

\* time passes
Tick ==
    /\ gpc # "off" \/ oGen # <<>>
    /\ \E d \in {15, 16} :
          /\ now + d * Minute <= MaxMinutes * Minute
          /\ now' = now + d * Minute
    /\ UNCHANGED <<promptContexts, editor, gpc, gLocal, gRequests, gStoreReads,
                   gStoreChanged, gRuns>>
    /\ UNCHANGED <<rvars, xvars, fvars, pvars>>

NoEditor == [before |-> <<>>, left |-> "", right |-> "", after |-> <<>>]

\* the settings of a generation: both prompts have a prompt file, the first
\* one a callout heading and excluded callout types
GenerateSettings(url, model, heading, types) ==
    [ollamaUrl |-> url, modelName |-> model, excludePatterns |-> "", keepAlive |-> "10m",
     prompts |-> << [k |-> "reflection",
                     v |-> [displayLabel |-> "reflection question", promptFile |-> Some("p1.md"),
                            calloutHeading |-> heading, excludeCalloutTypes |-> types]],
                    [k |-> "affirmation",
                     v |-> [displayLabel |-> "affirmation", promptFile |-> Some("p2.md"),
                            calloutHeading |-> None, excludeCalloutTypes |-> None]] >>]

\* a prompt file that asks for a continuous conversation, with a model
ContinuousPromptFile ==
    [kind |-> "file",
     content |-> "---\nmodel: m1\nnum_ctx: 2048\ncontinuous: true\ntemp: 0.7\n---\nBe kind.\n",
     fm |-> Obj1("model", JStr("m1")) \o Obj1("num_ctx", JNum(20480))
            \o Obj1("continuous", JBool(TRUE)) \o Obj1("temp", JNum(7))]

\* one that asks for it with the string "true", without a model
ContinuousPromptFileNoModel ==
    [kind |-> "file", content |-> "---\nisContinuous: \"true\"\n---\nAffirm.",
     fm |-> Obj1("isContinuous", JStr("true"))]

PlainPromptFile == [kind |-> "file", content |-> "Ask one question.", fm |-> <<>>]

\* a prompt file whose frontmatter lists pre-filters
FilteredPromptFile ==
    [kind |-> "file",
     content |-> "---\nfilters:\n  - titled\n  - signed\n---\nBe brief.",
     fm |-> Obj1("filters", JArr(<<"titled", "signed">>))]

\* the functions a user script registered in window.journal.filters
RegisteredFilters == {"titled", "signed"}

\* window.journal.filters[name](content)
JournalFilter(name, content) ==
    IF name = "titled" THEN "# Journal\n" \o content ELSE content \o "\n-- end"

\* editor states: the text of the note and the cursor
GenerateEditors ==
    { [before |-> <<"Dear diary", "">>, left |-> "", right |-> "", after |-> <<>>],
      [before |-> <<>>, left |-> "Dear diary", right |-> "", after |-> <<"", "bye">>],
      [before |-> <<"- item">>, left |-> "  ", right |-> "", after |-> <<"bye">>],
      [before |-> <<>>, left |-> "Dear ", right |-> "diary", after |-> <<>>],
      NoEditor }

BaseScenario ==
    [settings |-> GenerateSettings("http://localhost:11434", "llama3.1",
                                   Some("[!ai] Reflection"), Some("ai")),
     p1 |-> ContinuousPromptFile, p2 |-> ContinuousPromptFileNoModel,
     noteFm |-> <<>>,
     editor |-> [before |-> <<"Dear diary", "">>, left |-> "", right |-> "", after |-> <<>>]]

\* the settings, vault, note and editor a session can start from
GenerateScenarios ==
    { [BaseScenario EXCEPT !.editor = e] : e \in GenerateEditors }
    \cup { [BaseScenario EXCEPT !.settings = st] : st \in
              { GenerateSettings("", "llama3.1", Some("[!ai] Reflection"), Some("ai")),
                GenerateSettings("http://localhost:11434", "", Some("[!ai] Reflection"), Some("ai")),
                GenerateSettings("http://localhost:11434", "llama3.1", None, Some("ai")) } }
    \cup { [BaseScenario EXCEPT !.p1 = f] : f \in {Missing, PlainPromptFile, FilteredPromptFile} }
    \cup { [BaseScenario EXCEPT !.noteFm = fm] : fm \in
              { Obj1("prompt", JStr("X")), Obj1("prompt-file", JStr("p2.md")) } }

GIdle ==
    /\ promptContexts = <<>>
    /\ now = 0
    /\ editor = NoEditor
    /\ gpc = "off"
    /\ gLocal = [NoLocals EXCEPT !.editorBefore = NoEditor, !.contextsBefore = <<>>]
    /\ gRequests = <<>>
    /\ gStoreReads = <<>>
    /\ gStoreChanged = {}
    /\ gRuns = 0

-----------------------------------------------------------------------------
(* Two generations in flight: getGeneratedContent from checkConnection on. *)

Generations == {1, 2}

\* the tokens the inference call of generation g can return: none, an empty
\* list, or a list of its own
OverlapContexts(g) == { None, Some(<<>>), Some(<<10 + g>>) }

\* the entries the store can hold when the generations start
OverlapStores ==
    LET entry(c) == [context |-> c, timestamp |-> 0]
        own      == ActiveNote \o "::p1.md"
        other    == ActiveNote \o "::p2.md"
        third    == "B.md::p1.md"
    IN { <<>>,
         (own :> entry(<<9>>)),
         (other :> entry(<<5>>)),
         (own :> entry(<<9>>)) @@ (third :> entry(<<6>>)),
         (other :> entry(<<5>>)) @@ (third :> entry(<<6>>)) }

\* the locals of a generation that resolved the prompt of pKey and is at
\* checkConnection
OverlapLocals(pKey) ==
    [pc |-> "connecting", promptKey |-> pKey,
     resolved |-> readPromptFromFile(IF pKey = "reflection" THEN "p1.md" ELSE "p2.md").resolved[1],
     contextKey |-> None, context |-> None, result |-> None, returnedAt |-> 0,
     before |-> <<>>, after |-> <<>>]

\* checkConnection of generation g returned: on true the context is looked up
\* and the generation is suspended at ollamaClient.generate
OverlapConnected(g) ==
    /\ oGen # <<>>
    /\ oGen[g].pc = "connecting"
    /\ \E isConnected \in BOOLEAN :
          IF ~isConnected
          THEN /\ oGen' = [oGen EXCEPT ![g].pc = "done"]
               /\ UNCHANGED <<promptContexts, oLog, oChanged>>
          ELSE LET contextKey == buildContextKey(ActiveNote, oGen[g].resolved, oGen[g].promptKey)
                   got        == getContextForKey(promptContexts, contextKey, now)
               IN /\ promptContexts' = got.contexts
                  /\ oChanged' = oChanged \cup ChangedKeys(promptContexts, got.contexts)
                  /\ oLog' = Append(oLog, [g |-> g, event |-> "read"])
                  /\ oGen' = [oGen EXCEPT ![g].pc = "generating",
                                          ![g].contextKey = contextKey,
                                          ![g].context = got.value]
    /\ UNCHANGED <<now, editor, gpc, gLocal, gRequests, gStoreReads, gStoreChanged, gRuns>>
    /\ UNCHANGED <<rvars, xvars, fvars, svars>>

\* ollamaClient.generate of generation g returned: the tokens are stored
OverlapReturned(g) ==
    /\ oGen # <<>>
    /\ oGen[g].pc = "generating"
    /\ \E context \in OverlapContexts(g) :
          LET stored == IF oGen[g].contextKey # None /\ context # None
                        THEN storeContextForKey(promptContexts, oGen[g].contextKey[1],
                                                context[1], now)
                        ELSE promptContexts
          IN /\ promptContexts' = stored
             /\ oChanged' = oChanged \cup ChangedKeys(promptContexts, stored)
             /\ oLog' = Append(oLog, [g |-> g, event |-> "returned"])
             /\ oGen' = [oGen EXCEPT ![g].pc = "done", ![g].result = context,
                                     ![g].returnedAt = now,
                                     ![g].before = promptContexts, ![g].after = stored]
    /\ UNCHANGED <<now, editor, gpc, gLocal, gRequests, gStoreReads, gStoreChanged, gRuns>>
    /\ UNCHANGED <<rvars, xvars, fvars, svars>>

-----------------------------------------------------------------------------
(* Settings tab and commands: journal-SettingsTab.ts, journal-Plugin.ts    *)
(* onload, generateCommands, saveSettings.                                 *)

\* delete prompts[key]
RECURSIVE DeletePrompt(_, _)
DeletePrompt(prompts, key) ==
    IF Len(prompts) = 0 THEN <<>>
    ELSE IF prompts[1].k = key THEN DeletePrompt(Tail(prompts), key)
    ELSE <<prompts[1]>> \o DeletePrompt(Tail(prompts), key)

\* prompts[key] = config: an existing key keeps its place, a new one goes last
SetPrompt(prompts, key, config) ==
    IF \E i \in 1..Len(prompts) : prompts[i].k = key
    THEN [i \in 1..Len(prompts) |-> IF prompts[i].k = key
                                    THEN [k |-> key, v |-> config] ELSE prompts[i]]
    ELSE Append(prompts, [k |-> key, v |-> config])

\* a variant that forgets the ids without removing the commands
clearCommandsListOnly(ids, commands) ==
    [commandIds |-> <<>>, registered |-> commands]

\* [commandIds, registered] after clearCommands(); commands maps the id of
\* each command of the plugin to its name
clearCommands(ids, commands) ==
    [commandIds |-> <<>>,
     registered |-> [id \in DOMAIN commands \ Range(ids) |-> commands[id]]]

\* [commandIds, registered] after generateCommands()
generateCommands(ids, commands, prompts) ==
    LET cleared == clearCommands(ids, commands)
        added   == [i \in 1..Len(prompts) |-> "journal-" \o prompts[i].k]
        nameOf(id) == LET i == CHOOSE j \in 1..Len(prompts) : added[j] = id
                      IN "Generate " \o prompts[i].v.displayLabel
    IN [commandIds |-> cleared.commandIds \o added,
        registered |-> [id \in DOMAIN cleared.registered \cup Range(added) |->
                           IF id \in Range(added) THEN nameOf(id)
                           ELSE cleared.registered[id]]]

\* JSON.parse(JSON.stringify(settings)): every field of the settings is a
\* string or an object of strings, and a field that is undefined is one that
\* is absent, so the copy has the same value; it is a new object
cloneSettings(current) == current

\* the settings as saveSettings leaves them before saveData
MigratePatterns(current) ==
    IF current.excludeLinkPatterns # None /\ current.excludeLinkPatterns[1] # ""
    THEN [current EXCEPT !.excludePatterns = current.excludeLinkPatterns[1],
                         !.excludeLinkPatterns = None]
    ELSE current

\* what loadSettings can find: the defaults of a first install, settings a
\* user saved, and settings of a version that had excludeLinkPatterns
LoadedSettings ==
    LET base == SettingsWith(None) @@ [excludeLinkPatterns |-> None] IN
    { base,
      [base EXCEPT !.modelName = "mistral",
                   !.prompts = Append(@, [k |-> "custom-0", v |-> PromptConfig("Custom Prompt", None)])],
      [base EXCEPT !.excludeLinkPatterns = Some("^old")] }

\* values typed into the Model Name and Display Label fields
TypedValues == {" m2 ", "L2"}

\* keys generatePromptKey can return: custom-${Date.now()}
NewPromptKeys == {"custom-1", "custom-2"}

MaxTabSteps == 5
MaxPendingSaves == 2

\* the tab's newSettings after an edit, and this.settings with it when the
\* two are one object
Staged(edited) ==
    /\ newSettings' = Some(edited)
    /\ settings' = IF aliased THEN edited ELSE settings

\* onLayoutReady: updateOllamaClient, generateCommands, registerContextReaper
LayoutReady ==
    /\ ppc = "loaded"
    /\ ppc' = "ready"
    /\ ollamaClient' = Some(settings.ollamaUrl)
    /\ LET made == generateCommands(commandIds, registered, settings.prompts)
       IN /\ commandIds' = made.commandIds
          /\ registered' = made.registered
    /\ lastEvent' = "layoutReady"
    /\ UNCHANGED <<newSettings, aliased, savedData, tabOpen, pendingSaves, tabSteps>>
    /\ UNCHANGED <<rvars, xvars, fvars, gvars, ovars>>

\* the user opens the settings tab: display()
TabDisplay ==
    /\ ppc \in {"loaded", "ready"}
    /\ ~tabOpen
    /\ tabSteps < MaxTabSteps
    /\ tabSteps' = tabSteps + 1
    /\ tabOpen' = TRUE
    /\ IF newSettings = None
       THEN newSettings' = Some(cloneSettings(settings)) /\ aliased' = FALSE
       ELSE UNCHANGED <<newSettings, aliased>>
    /\ lastEvent' = "display"
    /\ UNCHANGED <<savedData, commandIds, registered, ollamaClient, ppc, pendingSaves>>
    /\ UNCHANGED <<rvars, xvars, fvars, gvars, ovars>>

\* onChange of the Model Name field or of the Display Label field of a prompt
TabEdit ==
    /\ tabOpen
    /\ tabSteps < MaxTabSteps
    /\ tabSteps' = tabSteps + 1
    /\ \E value \in TypedValues :
          \/ Staged([newSettings[1] EXCEPT !.modelName = Trim(value)])
          \/ \E i \in 1..Len(newSettings[1].prompts) :
                Staged([newSettings[1] EXCEPT !.prompts[i].v.displayLabel = Trim(value)])
    /\ lastEvent' = "edit"
    /\ UNCHANGED <<vault, noteFm, promptKey, rpc, rPath, rResult, notices, fileReads>>
    /\ UNCHANGED <<aliased, savedData, commandIds, registered, ollamaClient, ppc, tabOpen,
                   pendingSaves>>
    /\ UNCHANGED <<xvars, fvars, gvars, ovars>>

\* the Add Prompt button: addNewPrompt()
TabAddPrompt ==
    /\ tabOpen
    /\ tabSteps < MaxTabSteps
    /\ tabSteps' = tabSteps + 1
    /\ \E key \in NewPromptKeys :
          Staged([newSettings[1] EXCEPT
                     !.prompts = SetPrompt(@, key, PromptConfig("Custom Prompt", None))])
    /\ lastEvent' = "add"
    /\ UNCHANGED <<vault, noteFm, promptKey, rpc, rPath, rResult, notices, fileReads>>
    /\ UNCHANGED <<aliased, savedData, commandIds, registered, ollamaClient, ppc, tabOpen,
                   pendingSaves>>
    /\ UNCHANGED <<xvars, fvars, gvars, ovars>>

\* the Remove button of a prompt other than reflection: removePrompt(key)
TabRemovePrompt ==
    /\ tabOpen
    /\ tabSteps < MaxTabSteps
    /\ tabSteps' = tabSteps + 1
    /\ \E i \in 1..Len(newSettings[1].prompts) :
          /\ newSettings[1].prompts[i].k # "reflection"
          /\ Staged([newSettings[1] EXCEPT
                        !.prompts = DeletePrompt(@, newSettings[1].prompts[i].k)])
    /\ lastEvent' = "remove"
    /\ UNCHANGED <<vault, noteFm, promptKey, rpc, rPath, rResult, notices, fileReads>>
    /\ UNCHANGED <<aliased, savedData, commandIds, registered, ollamaClient, ppc, tabOpen,
                   pendingSaves>>
    /\ UNCHANGED <<xvars, fvars, gvars, ovars>>

\* the Reset button: reset()
TabReset ==
    /\ tabOpen
    /\ tabSteps < MaxTabSteps
    /\ tabSteps' = tabSteps + 1
    /\ newSettings' = Some(cloneSettings(settings))
    /\ aliased' = FALSE
    /\ lastEvent' = "reset"
    /\ UNCHANGED <<savedData, commandIds, registered, ollamaClient, ppc, tabOpen, pendingSaves>>
    /\ UNCHANGED <<rvars, xvars, fvars, gvars, ovars>>

\* save() up to the await of saveData inside saveSettings
SaveUpToSaveData ==
    LET saved == MigratePatterns(newSettings[1])
    IN /\ pendingSaves < MaxPendingSaves
       /\ settings' = saved
       /\ newSettings' = Some(saved)
       /\ aliased' = TRUE
       /\ savedData' = Some(saved)
       /\ pendingSaves' = pendingSaves + 1
       /\ UNCHANGED <<vault, noteFm, promptKey, rpc, rPath, rResult, notices, fileReads>>
       /\ UNCHANGED <<commandIds, registered, ollamaClient, ppc>>
       /\ UNCHANGED <<xvars, fvars, gvars, ovars>>

\* the Save button
TabSave ==
    /\ tabOpen
    /\ tabSteps < MaxTabSteps
    /\ tabSteps' = tabSteps + 1
    /\ SaveUpToSaveData
    /\ lastEvent' = "save"
    /\ UNCHANGED tabOpen

\* the user leaves the tab: hide()
TabHide ==
    /\ tabOpen
    /\ tabSteps < MaxTabSteps
    /\ tabSteps' = tabSteps + 1
    /\ SaveUpToSaveData
    /\ lastEvent' = "hide"
    /\ tabOpen' = FALSE

\* saveData resolved: the rest of saveSettings
SaveDataDone ==
    /\ pendingSaves > 0
    /\ pendingSaves' = pendingSaves - 1
    /\ ollamaClient' = Some(settings.ollamaUrl)
    /\ excludePatterns' = compileExcludePatterns(JStr(settings.excludePatterns)).compiled
    /\ LET made == generateCommands(commandIds, registered, settings.prompts)
       IN /\ commandIds' = made.commandIds
          /\ registered' = made.registered
    /\ lastEvent' = "saved"
    /\ UNCHANGED <<newSettings, aliased, savedData, ppc, tabOpen, tabSteps>>
    /\ UNCHANGED <<xInput, xCache, xStack, processedFiles, xpc, xResult, xCalls, xLog, xTrace>>
    /\ UNCHANGED <<rvars, fvars, gvars, ovars>>

\* saveData rejected: saveSettings throws at the await
SaveDataFailed ==
    /\ pendingSaves > 0
    /\ pendingSaves' = pendingSaves - 1
    /\ lastEvent' = "saveFailed"
    /\ UNCHANGED <<newSettings, aliased, savedData, commandIds, registered, ollamaClient,
                   ppc, tabOpen, tabSteps>>
    /\ UNCHANGED <<rvars, xvars, fvars, gvars, ovars>>

OIdle ==
    /\ oGen = <<>>
    /\ oLog = <<>>
    /\ oChanged = {}

SIdle ==
    /\ newSettings = None
    /\ aliased = FALSE
    /\ savedData = None
    /\ commandIds = <<>>
    /\ registered = <<>>
    /\ ollamaClient = None
    /\ ppc = "off"
    /\ tabOpen = FALSE
    /\ pendingSaves = 0
    /\ lastEvent = ""
    /\ tabSteps = 0

-----------------------------------------------------------------------------
(* Specifications.                                                         *)

NoteFrontmatter(prompt, promptFile) ==
    (IF prompt = Und THEN <<>> ELSE Obj1("prompt", prompt))
    \o (IF promptFile = Und THEN <<>> ELSE Obj1("prompt-file", promptFile))

InitResolve ==
    /\ OIdle
    /\ SIdle
    /\ \E file \in ConfiguredPromptFiles : settings = SettingsWith(file)
    /\ vault \in [PromptPaths -> VaultEntries]
    /\ \E p \in NotePrompts, f \in NotePromptFiles : noteFm = NoteFrontmatter(p, f)
    /\ promptKey \in PromptKeys
    /\ rpc = "idle"
    /\ rPath = ""
    /\ rResult = None
    /\ notices = <<>>
    /\ fileReads = <<>>
    /\ XIdle
    /\ FIdle
    /\ GIdle

NextResolve == ResolveStart \/ ReadNotePromptFile \/ ReadConfigPromptFile

SpecResolve == InitResolve /\ [][NextResolve]_vars

InitExpand ==
    /\ OIdle
    /\ SIdle
    /\ RIdle
    /\ FIdle
    /\ GIdle
    /\ \E inp \in ExpandInputs :
       \E raw \in inp.settingsPatterns, extra \in inp.promptPatterns,
          inc \in BOOLEAN, bad \in inp.unreadable, unc \in inp.uncached :
          /\ excludePatterns = compileExcludePatterns(JStr(raw)).compiled
          /\ xInput = [sourceFile |-> Some(RootNote), content |-> inp.content,
                       includeLinks |-> inc, pathPatterns |-> extra, menu |-> inp.menu,
                       unreadable |-> bad, uncached |-> unc]
    /\ xCache = [p \in NotePaths |-> [known |-> FALSE, refs |-> <<>>]]
    /\ xStack = <<>>
    /\ processedFiles = {}
    /\ xpc = "idle"
    /\ xResult = ""
    /\ xCalls = 0
    /\ xLog = <<>>
    /\ xTrace = <<>>

NextExpand == ExpandCall \/ ExpandSkip \/ ExpandFollow \/ ExpandReturn \/ ExpandFinish

SpecExpand == InitExpand /\ [][NextExpand]_vars

InitFilter ==
    /\ OIdle
    /\ SIdle
    /\ RIdle
    /\ XIdle
    /\ GIdle
    /\ \/ \E c \in FilterContents, t \in FilterTypeSettings :
             fIn = [content |-> c, calloutTypes |-> t]
       \/ fIn \in FilterExamples
    /\ fState = FilterStart
    /\ fpc = "idle"
    /\ fOut = ""

NextFilter == FilterCall \/ FilterLine \/ FilterReturn

SpecFilter == InitFilter /\ [][NextFilter]_vars

InitGenerate ==
    /\ OIdle
    /\ SIdle
    /\ XIdle
    /\ FIdle
    /\ \E sc \in GenerateScenarios :
          /\ settings = sc.settings
          /\ vault = [p \in PromptPaths |-> IF p = "p1.md" THEN sc.p1 ELSE sc.p2]
          /\ noteFm = sc.noteFm
          /\ editor = sc.editor
    /\ promptKey = "reflection"
    /\ rpc = "off"
    /\ rPath = ""
    /\ rResult = None
    /\ notices = <<>>
    /\ fileReads = <<>>
    /\ promptContexts = <<>>
    /\ now = 0
    /\ gpc = "idle"
    /\ gLocal = NoLocals
    /\ gRequests = <<>>
    /\ gStoreReads = <<>>
    /\ gStoreChanged = {}
    /\ gRuns = 0

NextGenerate ==
    \/ GenerateCommand
    \/ ResolveStart
    \/ ReadNotePromptFile
    \/ ReadConfigPromptFile
    \/ GenerateRejected
    \/ GenerateResolved
    \/ ConnectionChecked
    \/ GenerateReturned
    \/ ReapContexts
    \/ Tick

SpecGenerate == InitGenerate /\ [][NextGenerate]_vars

InitOverlap ==
    /\ XIdle
    /\ FIdle
    /\ SIdle
    /\ settings = BaseScenario.settings
    /\ vault = [p \in PromptPaths |-> IF p = "p1.md" THEN ContinuousPromptFile
                                      ELSE ContinuousPromptFileNoModel]
    /\ noteFm = <<>>
    /\ promptKey = "reflection"
    /\ rpc = "off"
    /\ rPath = ""
    /\ rResult = None
    /\ notices = <<>>
    /\ fileReads = <<>>
    /\ promptContexts \in OverlapStores
    /\ now = 0
    /\ editor = NoEditor
    /\ gpc = "off"
    /\ gLocal = [NoLocals EXCEPT !.editorBefore = NoEditor, !.contextsBefore = <<>>]
    /\ gRequests = <<>>
    /\ gStoreReads = <<>>
    /\ gStoreChanged = {}
    /\ gRuns = 0
    /\ \E k1 \in {"reflection", "affirmation"}, k2 \in {"reflection", "affirmation"} :
          oGen = <<OverlapLocals(k1), OverlapLocals(k2)>>
    /\ oLog = <<>>
    /\ oChanged = {}

NextOverlap ==
    \/ \E g \in Generations : OverlapConnected(g)
    \/ \E g \in Generations : OverlapReturned(g)
    \/ ReapContexts
    \/ Tick

SpecOverlap == InitOverlap /\ [][NextOverlap]_vars

\* the plugin after loadSettings, before the layout is ready
InitSettings ==
    /\ FIdle
    /\ GIdle
    /\ OIdle
    /\ \E loaded \in LoadedSettings :
          /\ settings = loaded
          /\ savedData = IF loaded = SettingsWith(None) @@ [excludeLinkPatterns |-> None]
                         THEN None ELSE Some(loaded)
          /\ excludePatterns = compileExcludePatterns(
                 JStr(IF loaded.excludePatterns # "" \/ loaded.excludeLinkPatterns = None
                      THEN loaded.excludePatterns
                      ELSE loaded.excludeLinkPatterns[1])).compiled
    /\ vault = [p \in PromptPaths |-> Missing]
    /\ noteFm = <<>>
    /\ promptKey = "reflection"
    /\ rpc = "off"
    /\ rPath = ""
    /\ rResult = None
    /\ notices = <<>>
    /\ fileReads = <<>>
    /\ xInput = [sourceFile |-> None, content |-> "", includeLinks |-> FALSE,
                 pathPatterns |-> <<>>, menu |-> {}, unreadable |-> {}, uncached |-> {}]
    /\ xCache = [p \in NotePaths |-> [known |-> FALSE, refs |-> <<>>]]
    /\ xStack = <<>>
    /\ processedFiles = {}
    /\ xpc = "off"
    /\ xResult = ""
    /\ xCalls = 0
    /\ xLog = <<>>
    /\ xTrace = <<>>
    /\ newSettings = None
    /\ aliased = FALSE
    /\ commandIds = <<>>
    /\ registered = <<>>
    /\ ollamaClient = None
    /\ ppc = "loaded"
    /\ tabOpen = FALSE
    /\ pendingSaves = 0
    /\ lastEvent = "onload"
    /\ tabSteps = 0

NextSettings ==
    \/ LayoutReady
    \/ TabDisplay
    \/ TabEdit
    \/ TabAddPrompt
    \/ TabRemovePrompt
    \/ TabReset
    \/ TabSave
    \/ TabHide
    \/ SaveDataDone
    \/ SaveDataFailed

SpecSettings == InitSettings /\ [][NextSettings]_vars

Init == InitResolve \/ InitExpand \/ InitFilter \/ InitGenerate \/ InitOverlap \/ InitSettings

Next == NextResolve \/ NextExpand \/ NextFilter \/ NextGenerate \/ NextOverlap \/ NextSettings

Spec == Init /\ [][Next]_vars

-----------------------------------------------------------------------------
(* Properties of prompt resolution, checked under SpecResolve.             *)

\* the string a note field gives for a prompt key: the field itself when it
\* is a non-empty string, or the key's entry when the field is a mapping
FieldTextOf(fm, field, key) ==
    LET v == ObjGet(fm, field) IN
    IF v.t = "string" /\ v.s # "" THEN Some(v.s)
    ELSE IF v.t = "object" /\ ObjGet(v.m, key).t = "string" /\ ObjGet(v.m, key).s # ""
    THEN Some(ObjGet(v.m, key).s)
    ELSE None

ResolveStarted == rpc \in {"readNoteFile", "readConfigFile", "done", "threw"}

\* C1: when the note's `prompt` field is a non-empty string, or a mapping
\* whose entry for the prompt key is one, resolve returns exactly that string
\* as instruction text, whatever `prompt-file` and the configured promptFile
\* are; no file is read and the result has no model, generation parameter,
\* continuation flag or sourcePath.
C1_InlinePromptWins ==
    (ResolveStarted /\ FieldTextOf(noteFm, "prompt", promptKey) # None) =>
        /\ rpc = "done"
        /\ rResult # None
        /\ rResult[1].prompt = FieldTextOf(noteFm, "prompt", promptKey)[1]
        /\ fileReads = <<>>
        /\ rResult[1].model = None
        /\ rResult[1].numCtx = None
        /\ rResult[1].temperature = None
        /\ rResult[1].topP = None
        /\ rResult[1].repeatPenalty = None
        /\ rResult[1].isContinuous = None
        /\ rResult[1].sourcePath = None

\* a mapping-shaped inline prompt beside a prompt-file that is missing and a
\* configured promptFile that exists
C1_Witness ==
    /\ rpc = "done"
    /\ ObjGet(noteFm, "prompt").t = "object"
    /\ FieldTextOf(noteFm, "prompt", promptKey) # None
    /\ FieldTextOf(noteFm, "prompt-file", promptKey) = Some("p1.md")
    /\ FileAt("p1.md").kind = "missing"
    /\ PromptConfigOf(settings.prompts, promptKey) # None
    /\ PromptConfigOf(settings.prompts, promptKey)[1].promptFile = Some("p2.md")
    /\ FileAt("p2.md").kind = "file"

\* C2: the instruction text of every ResolvedPrompt that resolve returns is a
\* non-empty string.
C2_InstructionTextNonEmpty ==
    rpc = "done" => (rResult # None /\ rResult[1].prompt # "")

\* the file at the path cannot be loaded: it is absent, a folder, or its read
\* fails
Unavailable(path) == FileAt(path).kind \in {"missing", "folder", "unreadable"}

\* the file at the path exists and its frontmatter holds patterns of a shape
\* the plugin accepts
Loads(path) ==
    /\ FileAt(path).kind = "file"
    /\ Coalesce(FileAt(path).fm, <<"excludePatterns", "exclude_patterns", "exclude-patterns">>).t
           \in {"undefined", "string", "array"}

NotFoundOrUnread(path) ==
    {"Prompt file not found: " \o path, "Could not read prompt file: " \o path}

\* C3: for a configured prompt key, resolve never fails and always returns a
\* ResolvedPrompt.  When resolution reaches the note's `prompt-file` and that
\* path is missing or unreadable, a notice naming it is shown and resolution
\* goes on with the configured promptFile; when that one is unset, missing or
\* unreadable, the built-in default is returned.
C3_MissingFileFallsThrough ==
    LET config   == PromptConfigOf(settings.prompts, promptKey)
        noteFile == FieldTextOf(noteFm, "prompt-file", promptKey)
        reached  == FieldTextOf(noteFm, "prompt", promptKey) = None
        own      == config[1].promptFile
        ownSet   == own # None /\ own[1] # ""
    IN config # None =>
        /\ rpc # "threw"
        /\ Len(fileReads) <= 2
        /\ rpc = "done" => rResult # None
        /\ (rpc = "done" /\ reached /\ noteFile # None /\ Unavailable(noteFile[1])) =>
               /\ Len(notices) >= 1
               /\ notices[1] \in NotFoundOrUnread(noteFile[1])
               /\ (ownSet /\ Loads(own[1])) =>
                      /\ rResult[1].sourcePath = own
                      /\ Len(notices) = 1
               /\ (ownSet /\ Unavailable(own[1])) =>
                      /\ Len(notices) = 2
                      /\ notices[2] \in NotFoundOrUnread(own[1])
        /\ (/\ rpc = "done"
            /\ reached
            /\ noteFile = None \/ Unavailable(noteFile[1])
            /\ ~ownSet \/ Unavailable(own[1])) =>
               /\ rResult[1].prompt = DEFAULT_PROMPT
               /\ rResult[1].sourcePath = None

\* the note's prompt-file and the configured promptFile are both missing
C3_Witness ==
    /\ rpc = "done"
    /\ FieldTextOf(noteFm, "prompt", promptKey) = None
    /\ FieldTextOf(noteFm, "prompt-file", promptKey) = Some("p1.md")
    /\ FileAt("p1.md").kind = "missing"
    /\ PromptConfigOf(settings.prompts, promptKey) # None
    /\ PromptConfigOf(settings.prompts, promptKey)[1].promptFile = Some("p2.md")
    /\ FileAt("p2.md").kind = "unreadable"
    /\ Len(notices) = 2
    /\ rResult = Some(PromptOnly(DEFAULT_PROMPT))

-----------------------------------------------------------------------------
(* Properties of linked-content expansion, checked under SpecExpand.       *)

Frames == { xStack[k] : k \in 1..Len(xStack) }

RefsOf(file) == { xCache[file].refs[k] : k \in 1..Len(xCache[file].refs) }

\* the note a link string of `source` resolves to, if any
Resolved(link, source) == LinkDest(parseLinkReference(link).path, source)

\* the loop iterations that went on to read and expand their target
Followed == { k \in 1..Len(xTrace) : xTrace[k].outcome = "follow" }

\* C4: a top-level expand call terminates on every finite note graph, cycles,
\* self-links and mutual links included: the recursive calls and the loop
\* iterations are bounded by the number of references of the notes read, the
\* recursion is at most three calls deep, and a call in progress always has
\* a next step.
C4_ExpandTerminates ==
    /\ xCalls <= 1 + TotalRefs
    /\ Len(xTrace) <= TotalRefs
    /\ Len(xLog) <= Len(xTrace)
    /\ Len(xStack) <= NestingLimit + 1
    /\ xpc = "running" =>
          /\ Len(xStack) >= 1
          /\ TopFrame.i <= Len(TopFrame.allLinks) + 1

\* notes that link each other: the link back to the root is skipped and the
\* call finishes
C4_Witness ==
    /\ xpc = "done"
    /\ \E k \in 1..Len(xTrace) :
          /\ xTrace[k].source = "B.md"
          /\ Resolved(xTrace[k].link, "B.md") = Some(RootNote)
          /\ xTrace[k].outcome = "visited"
    /\ \E k \in 1..Len(xTrace) :
          /\ xTrace[k].source = RootNote
          /\ Resolved(xTrace[k].link, RootNote) = Some(RootNote)

\* C5: within one top-level expand call the content of each note is appended
\* at most once, nested blocks counted, and the root note's content is never
\* appended.
C5_EachNoteAppendedAtMostOnce ==
    \A i, j \in 1..Len(xLog) :
        /\ xLog[i].target # RootNote
        /\ i # j => xLog[i].target # xLog[j].target

\* the text of the target that a reference hands to the recursive call: the
\* note, or the part its subpath names
HandedContent(link, target) ==
    LET parsed == parseLinkReference(link) IN
    IF parsed.subpath # None /\ parsed.subpath[1] # ""
    THEN extractSubpathContent(target, NoteContent(target), parsed.subpath[1])
    ELSE NoteContent(target)

\* C6: expand formats appended content at depth 0 or 1 only: a note is
\* included only if a chain of at most 2 references leads to it from the
\* root, and a call at depth 2 returns its text unchanged and reads no note.
C6_DepthAtMostTwo ==
    /\ \A f \in Frames :
          /\ f.depth \in 0..NestingLimit
          /\ f.depth = NestingLimit =>
                /\ f.allLinks = <<>>
                /\ f.expanded = f.content
                /\ \E r \in xInput.menu : f.content = HandedContent(r.link, f.file)
    /\ \A k \in 1..Len(xTrace) : xTrace[k].depth \in {0, 1}
    /\ \A k \in 1..Len(xLog) :
          LET e == xLog[k] IN
          /\ e.depth \in {0, 1}
          /\ Resolved(e.link, e.source) = Some(e.target)
          /\ \E r \in RefsOf(e.source) : r.link = e.link
          /\ e.depth = 0 => e.source = RootNote
          /\ e.depth = 1 =>
                /\ \E r \in RefsOf(RootNote) : Resolved(r.link, RootNote) = Some(e.source)
                /\ e.text = HandedContent(e.link, e.target)

\* a chain root -> B -> C: the call on C at depth 2 is in progress
C6_Witness ==
    /\ Len(xStack) = 3
    /\ TopFrame.depth = 2
    /\ xStack[1].file = RootNote
    /\ xStack[2].file = "B.md"
    /\ TopFrame.file = "C.md"

\* a note below the depth limit whose loop is over
Finished(f) == f.depth < NestingLimit /\ f.file \notin xInput.uncached /\ f.i > Len(f.allLinks)

\* an embed of the note that no pattern excludes, that resolves to a note
\* and whose read returns
EligibleEmbed(r, file) ==
    /\ r.embed
    /\ ~shouldExcludeLink(r, xInput.pathPatterns)
    /\ Resolved(r.link, file) # None
    /\ Resolved(r.link, file)[1] \notin xInput.unreadable

\* the loop of the note followed a reference to the target
FollowedFrom(f, target) ==
    \E k \in Followed :
        /\ xTrace[k].source = f.file
        /\ xTrace[k].depth = f.depth
        /\ Resolved(xTrace[k].link, f.file) = Some(target)

NoPlainLinkUnlessIncluded ==
    ~xInput.includeLinks =>
        /\ \A k \in 1..Len(xTrace) : xTrace[k].embed
        /\ \A k \in 1..Len(xLog) : xLog[k].embed

\* C7 as stated: at every level a non-excluded, resolvable embed of the note
\* being expanded is always followed, whatever includeLinks is; plain links
\* contribute only when includeLinks is true.
C7_EmbedAlwaysFollowed ==
    /\ NoPlainLinkUnlessIncluded
    /\ \A f \in Frames : Finished(f) =>
          \A r \in RefsOf(f.file) :
              EligibleEmbed(r, f.file) => FollowedFrom(f, Resolved(r.link, f.file)[1])

\* C7: at every level below the depth limit a non-excluded, resolvable,
\* readable embed of the note being expanded is followed unless its target
\* has already been visited in this top-level call; plain links are followed
\* and contribute content only when includeLinks is true.
C7_EmbedFollowedUnlessVisited ==
    /\ NoPlainLinkUnlessIncluded
    /\ \A f \in Frames : Finished(f) =>
          \A r \in RefsOf(f.file) :
              EligibleEmbed(r, f.file) =>
                  \/ FollowedFrom(f, Resolved(r.link, f.file)[1])
                  \/ Resolved(r.link, f.file)[1] \in processedFiles

\* includeLinks is false, the root embeds B and links C: B is appended, C is
\* not looked at
C7_Witness ==
    /\ xpc = "done"
    /\ ~xInput.includeLinks
    /\ xCache[RootNote].refs = <<Link("C", "C"), Embed("B", "B")>>
    /\ Len(xLog) = 1
    /\ xLog[1].target = "B.md"
    /\ xLog[1].embed

\* the pattern ^TODO is among the global patterns or the prompt's own
TodoPatternInForce ==
    \/ \E k \in 1..Len(excludePatterns) : excludePatterns[k] = "^TODO"
    \/ \E k \in 1..Len(xInput.pathPatterns) : xInput.pathPatterns[k] = "^TODO"

\* C8: with the exclusion pattern ^TODO in force, the reference
\* [TODO: draft](notes/draft.md) is excluded from expansion and the
\* reference [Done](notes/done.md) is not.
C8_TodoLinkExcluded ==
    TodoPatternInForce =>
        /\ \A k \in 1..Len(xTrace) :
              /\ xTrace[k].link = "notes/draft.md" => xTrace[k].outcome = "excluded"
              /\ xTrace[k].link = "notes/done.md" => xTrace[k].outcome # "excluded"
        /\ \A k \in 1..Len(xLog) : xLog[k].target # "notes/draft.md"

\* one header line of depth+1 markers, a space and [!calloutType] linkTarget,
\* then every line of the text after the same markers and a space
EmbedBlock(text, linkTarget, depth, calloutType) ==
    LET markers == Repeat(">", depth + 1)
        lines   == SplitLines(text)
    IN JoinLines(<<markers \o " [!" \o calloutType \o "] " \o linkTarget>>
                 \o [k \in 1..Len(lines) |-> markers \o " " \o lines[k]])

\* the blocks appended by the call on `file` at `depth`, in order, each after
\* a blank line
RECURSIVE BlocksFrom(_, _, _)
BlocksFrom(k, file, depth) ==
    IF k > Len(xLog) THEN ""
    ELSE (IF xLog[k].source = file /\ xLog[k].depth = depth
          THEN "\n\n" \o EmbedBlock(xLog[k].text, xLog[k].link, depth, "embedded-note")
          ELSE "")
         \o BlocksFrom(k + 1, file, depth)

\* C9: expand returns its input text followed, for each reference it
\* includes, by a blank line and the block formatEmbed(content, linkTarget,
\* depth, calloutType).  formatEmbed("line1\nline2", "Note A", 0, "quote") is
\* "> [!quote] Note A\n> line1\n> line2", and "Hello [[Linked]]" with
\* Linked.md = "World" and includeLinks expands to that text followed by
\* "> [!embedded-note] Linked\n> World".
C9_ExpandAppendsEmbedBlocks ==
    /\ formatAsEmbedBlockquote("line1\nline2", "Note A", 0, "quote")
           = "> [!quote] Note A\n> line1\n> line2"
    /\ \A f \in Frames :
          f.depth < NestingLimit => f.expanded = f.content \o BlocksFrom(1, f.file, f.depth)
    /\ xpc = "done" => xResult = xInput.content \o BlocksFrom(1, RootNote, 0)
    /\ (/\ xpc = "done"
        /\ xInput.content = "Hello [[Linked]]"
        /\ xInput.includeLinks
        /\ RefsOf(RootNote) = {Link("Linked", "Linked")}) =>
           xResult = "Hello [[Linked]]\n\n> [!embedded-note] Linked\n> World"

\* the end-to-end example, and a block nested in a block
C9_Witness ==
    /\ xpc = "done"
    /\ xResult = "Hello [[Linked]]\n\n> [!embedded-note] Linked\n> World"

C9_WitnessNested ==
    /\ xpc = "done"
    /\ xResult = "A text\n\n> [!embedded-note] B\n> B line 1\n> B line 2\n> \n> >> [!embedded-note] C\n> >> C text"

-----------------------------------------------------------------------------
(* Properties of the callout filter, checked under SpecFilter.             *)

InputLines == SplitLines(fIn.content)

\* the excluded type names: the non-blank lines of the setting
ListedTypes == { Trim(SplitLines(fIn.calloutTypes)[k]) : k \in 1..Len(SplitLines(fIn.calloutTypes)) } \ {""}

\* the line is one or more markers followed by [!T], whatever the case
HeaderOfType(line, T) ==
    /\ MarkerRunEnd(line, 1) > 1
    /\ MatchesAt(ToLowerCase(line), "[!" \o ToLowerCase(T) \o "]", MarkerRunEnd(line, 1))

\* indexes of the input lines that are in the output
KeptLines == { fState.kept[k] : k \in 1..Len(fState.kept) }

\* C10: for every type name T listed in the excluded set and every input
\* text, each header line made of one or more markers followed by [!T] is
\* absent from the output, together with every subsequent line of strictly
\* greater quote depth up to the first line that is not deeper.
C10_ExcludedCalloutsDropped ==
    (fpc = "done" /\ ListedTypes # {}) =>
        /\ fOut = JoinLines([k \in 1..Len(fState.kept) |-> InputLines[fState.kept[k]]])
        /\ \A i \in 1..Len(InputLines) : \A T \in ListedTypes :
              HeaderOfType(InputLines[i], T) =>
                  /\ i \notin KeptLines
                  /\ \A j \in (i + 1)..Len(InputLines) :
                        (\A m \in (i + 1)..j : LineDepth(InputLines[m]) > LineDepth(InputLines[i]))
                            => j \notin KeptLines


\* an empty or whitespace-only line
BlankAt(i) == Len(Trim(InputLines[i])) = 0

DepthAt(i) == LineDepth(InputLines[i])

\* the line is the header of a callout of a listed type
ExcludedHeaderAt(i) == \E T \in ListedTypes : HeaderOfType(InputLines[i], T)

\* the line is markers followed by the opening of a callout tag
AnyHeaderAt(i) ==
    /\ MarkerRunEnd(InputLines[i], 1) > 1
    /\ MatchesAt(InputLines[i], "[!", MarkerRunEnd(InputLines[i], 1))

\* the lines after i up to j are all at least as deep as line i
RunFrom(i, j) == \A m \in (i + 1)..j : DepthAt(m) >= DepthAt(i)

\* C11: a line is removed only if it is the header of an excluded-type
\* callout or belongs to the body of one.  Every unquoted line is kept, and a
\* callout of a non-excluded type that starts after a blank line is kept with
\* all of its body lines, up to an excluded callout nested in it; the output
\* is the kept lines in their original order, unmodified.
C11_OnlyExcludedCalloutsRemoved ==
    fpc = "done" =>
        /\ ListedTypes = {} => fOut = fIn.content
        /\ ListedTypes # {} =>
              /\ fOut = JoinLines([k \in 1..Len(fState.kept) |-> InputLines[fState.kept[k]]])
              /\ \A k \in 1..Len(fState.kept) :
                    /\ fState.kept[k] \in 1..Len(InputLines)
                    /\ k > 1 => fState.kept[k - 1] < fState.kept[k]
              /\ \A j \in 1..Len(InputLines) :
                    /\ j \notin KeptLines =>
                          \E i \in 1..j : ExcludedHeaderAt(i) /\ RunFrom(i, j)
                    /\ DepthAt(j) = 0 => j \in KeptLines
                    /\ (j > 1 /\ BlankAt(j - 1) /\ AnyHeaderAt(j) /\ ~ExcludedHeaderAt(j)) =>
                          \A m \in j..Len(InputLines) :
                              (RunFrom(j, m) /\ \A i \in j..m : ~ExcludedHeaderAt(i))
                                  => m \in KeptLines

\* an excluded callout, a blank line, then a callout that is kept whole
C11_Witness ==
    /\ fpc = "done"
    /\ fIn.content = "> [!ai] Q\n> answer\n\n> [!note] n\n> body\ntext"
    /\ fIn.calloutTypes = "ai"
    /\ fOut = "\n> [!note] n\n> body\ntext"

\* C12: filterCallouts is idempotent: filtering its own output again with
\* the same excluded types gives the same text.
C12_FilterIdempotent ==
    fpc = "done" =>
        /\ fOut = filterCallouts(fIn.content, fIn.calloutTypes)
        /\ filterCallouts(fOut, fIn.calloutTypes) = fOut

\* a text the filter shortens, with a nested excluded callout closed by a
\* shallower excluded header
C12_Witness ==
    /\ fpc = "done"
    /\ fIn.content = ">> [!note] n\n> [!ai] Q\n>> deep\nnote"
    /\ fOut = "note"

-----------------------------------------------------------------------------
(* Properties of generation and of the continuation store, checked under   *)
(* SpecGenerate.                                                           *)

EditorLines == SplitLines(EditorValue(editor))

\* the answer as inserted: formatBlockquote(c, heading)
AnswerLines ==
    SplitLines(formatAsBlockquote(gLocal.returned[1],
                                  PromptConfigOf(settings.prompts, promptKey)[1].calloutHeading))

\* the lines the answer occupies: it ends one blank line before the cursor
AnswerRange == (Len(editor.before) - Len(AnswerLines))..(Len(editor.before) - 1)

\* the prompt has a callout heading [!T] label whose type is among the
\* excluded callout types of the prompt
HeadingTypeExcluded ==
    LET promptConfig == PromptConfigOf(settings.prompts, promptKey) IN
    /\ promptConfig # None
    /\ promptConfig[1].calloutHeading # None
    /\ promptConfig[1].excludeCalloutTypes # None
    /\ \E k \in 1..Len(SplitLines(promptConfig[1].excludeCalloutTypes[1])) :
          LET T == Trim(SplitLines(promptConfig[1].excludeCalloutTypes[1])[k]) IN
          /\ T # ""
          /\ MatchesAt(ToLowerCase(promptConfig[1].calloutHeading[1]),
                       "[!" \o ToLowerCase(T) \o "]", 1)

\* indexes of the lines of the note that the next filtering keeps
KeptAfterInsert ==
    LET st == FilterLoop(FilterStart, EditorLines, CalloutTypeList(ExcludeCalloutTypes(promptKey)))
    IN { st.kept[k] : k \in 1..Len(st.kept) }

\* C13: after the answer formatBlockquote(c, heading) and a blank line were
\* inserted, with the type of the heading among the excluded callout types,
\* filtering the note removes every line of the inserted answer and keeps
\* every unquoted line of the note.
C13_InsertedAnswerFilteredOut ==
    (gpc = "done" /\ gLocal.inserted /\ HeadingTypeExcluded) =>
        /\ \A i \in AnswerRange : i \notin KeptAfterInsert
        /\ \A j \in 1..Len(EditorLines) :
              LineDepth(EditorLines[j]) = 0 => j \in KeptAfterInsert

\* the age of the entry found when the continuation store was read
AgeAtRead == gLocal.readAt - gLocal.entryBefore[1].timestamp

GenerationReadStore ==
    /\ gpc \in {"generating", "done"}
    /\ gLocal.connected
    /\ gLocal.contextKey # None
    /\ gLocal.entryBefore # None

\* C14: get(key) at time t for an entry stored at time T returns the stored
\* token list when t - T is at most 30 minutes, and otherwise returns absent
\* and removes the entry from the store.
C14_ContextExpiresAfterTtl ==
    GenerationReadStore =>
        IF AgeAtRead <= 30 * Minute
        THEN /\ gLocal.context = Some(gLocal.entryBefore[1].context)
             /\ gRequests[1].context = Some(gLocal.entryBefore[1].context)
        ELSE /\ gLocal.context = None
             /\ gRequests[1].context = None
             /\ gLocal.contextKey[1] \in gStoreChanged
             /\ gpc = "generating" => gLocal.contextKey[1] \notin DOMAIN promptContexts

\* an entry queried 31 minutes after it was stored
C14_Witness ==
    /\ GenerationReadStore
    /\ gpc = "generating"
    /\ AgeAtRead = 31 * Minute
    /\ gLocal.context = None
    /\ gLocal.contextKey[1] \notin DOMAIN promptContexts

\* C15: the continuation store holds no entry whose token list is empty:
\* put(key, tokens) with a non-empty list stores it with the current
\* timestamp, replacing any earlier entry, and put(key, []) deletes the entry.
C15_NoEmptyContextStored ==
    /\ \A k \in DOMAIN promptContexts :
          /\ Len(promptContexts[k].context) > 0
          /\ promptContexts[k].timestamp <= now
    /\ (/\ gpc = "done"
        /\ gLocal.result # None
        /\ gLocal.contextKey # None
        /\ gLocal.result[1].context # None) =>
           LET key    == gLocal.contextKey[1]
               tokens == gLocal.result[1].context[1]
           IN IF tokens = <<>>
              THEN key \notin DOMAIN promptContexts
              ELSE \/ /\ key \in DOMAIN promptContexts
                      /\ promptContexts[key] = [context |-> tokens, timestamp |-> gLocal.returnedAt]
                   \/ /\ key \notin DOMAIN promptContexts
                      /\ now - gLocal.returnedAt > 30 * Minute

\* an entry found in the store is deleted by a put of the empty list
C15_Witness ==
    /\ gpc = "done"
    /\ gLocal.contextKey # None
    /\ gLocal.entryBefore # None
    /\ gLocal.context # None
    /\ gLocal.result # None
    /\ gLocal.result[1].context = Some(<<>>)
    /\ gLocal.contextKey[1] \notin DOMAIN promptContexts

\* the generation has a resolved prompt
GenerationResolved == gpc \in {"connecting", "generating", "done"} /\ gLocal.noteOpen /\ rpc = "done"

IsContinuous == rResult[1].isContinuous = Some(TRUE)

\* {notePath}::{sourcePath or promptKey}
ExpectedContextKey ==
    ActiveNote \o "::" \o (IF rResult[1].sourcePath # None THEN rResult[1].sourcePath[1]
                           ELSE promptKey)

NonContinuousLeavesStore ==
    (GenerationResolved /\ ~IsContinuous) =>
        /\ gStoreReads = <<>>
        /\ gStoreChanged = {}
        /\ \A k \in 1..Len(gRequests) : gRequests[k].context = None

\* C16 as stated: a generation that is not continuous never reads or changes
\* the store and sends no prior tokens; a continuous one reads and writes
\* only the entry keyed {notePath}::{sourcePath or promptKey}.
C16_OnlyOwnEntryTouched ==
    /\ NonContinuousLeavesStore
    /\ (GenerationResolved /\ IsContinuous) =>
          /\ \A k \in 1..Len(gStoreReads) : gStoreReads[k] = ExpectedContextKey
          /\ gStoreChanged \subseteq {ExpectedContextKey}

\* C16: a generation that is not continuous never reads or changes the store
\* and sends no prior tokens; a continuous one reads and stores only the
\* entry keyed {notePath}::{sourcePath or promptKey}, and the only other
\* change it makes is the removal of entries older than 30 minutes.
C16_OwnEntryAndExpiredOnes ==
    /\ NonContinuousLeavesStore
    /\ (GenerationResolved /\ IsContinuous) =>
          /\ \A k \in 1..Len(gStoreReads) : gStoreReads[k] = ExpectedContextKey
          /\ \A key \in gStoreChanged \ {ExpectedContextKey} :
                /\ key \in DOMAIN gLocal.contextsBefore
                /\ key \notin DOMAIN promptContexts
                /\ gLocal.returnedAt - gLocal.contextsBefore[key].timestamp > 30 * Minute

\* a generation that is not continuous gets tokens back while the store
\* holds an entry of another prompt: the store is as it was
C16_Witness ==
    /\ gpc = "done"
    /\ GenerationResolved
    /\ ~IsContinuous
    /\ gLocal.result # None
    /\ gLocal.result[1].context = Some(<<7>>)
    /\ DOMAIN promptContexts # {}
    /\ promptContexts = gLocal.contextsBefore

EmptyNotice == "Document is empty. Write something first!"
ConfigNotice == "Ollama URL or model not configured. Please check settings."
ConnectNotice == "Cannot connect to Ollama. Please ensure Ollama is running."

TextIsBlank == Trim(gLocal.documentText) = ""

\* neither the prompt nor the settings name a model, or no server URL is set
NotConfigured ==
    \/ settings.ollamaUrl = ""
    \/ /\ rResult[1].model = None \/ rResult[1].model = Some("")
       /\ settings.modelName = ""

\* C17: generate is invoked only after the filtered text was found
\* non-blank, a server URL and a model name were found configured and
\* checkConnection returned true, in this order.  When one of these checks
\* fails a notice is shown, no generate request is made, the continuation
\* store is neither read nor written, nothing is inserted and the call
\* returns nothing without throwing.
C17_GenerateOnlyAfterChecks ==
    GenerationResolved =>
        /\ gpc = "connecting" =>
              gLocal.documentText = filterCallouts(gLocal.docContent,
                                                   ExcludeCalloutTypes(promptKey))
        /\ gpc \in {"connecting", "generating"} => ~TextIsBlank /\ ~NotConfigured
        /\ gRequests # <<>> => ~TextIsBlank /\ ~NotConfigured /\ gLocal.connected
        /\ Len(gRequests) <= 1
        /\ (gpc = "done" /\ gRequests = <<>>) =>
              /\ notices # <<>>
              /\ notices[Len(notices)] =
                     IF TextIsBlank THEN EmptyNotice
                     ELSE IF NotConfigured THEN ConfigNotice
                     ELSE ConnectNotice
              /\ gStoreReads = <<>>
              /\ gStoreChanged = {}
              /\ editor = gLocal.editorBefore
              /\ gLocal.returned = None
              /\ ~gLocal.inserted

\* the connection check fails after the first two checks passed
C17_Witness ==
    /\ gpc = "done"
    /\ GenerationResolved
    /\ ~TextIsBlank
    /\ ~NotConfigured
    /\ gRequests = <<>>
    /\ notices[Len(notices)] = ConnectNotice
    /\ DOMAIN promptContexts # {}

\* the prompt key is not a key of settings.prompts and the note has no
\* inline prompt for it
UnknownKeyNoInlinePrompt ==
    /\ gLocal.noteOpen
    /\ PromptConfigOf(settings.prompts, promptKey) = None
    /\ FieldTextOf(noteFm, "prompt", promptKey) = None

\* C18: generate for a prompt key that is not configured, on a note without
\* an inline prompt: the error is reported to the user, the call returns
\* nothing without throwing, and the editor and the continuation store are
\* unchanged.
C18_UnknownKeyReported ==
    (gpc \in {"done", "threw"} /\ UnknownKeyNoInlinePrompt) =>
        /\ gpc = "done"
        /\ notices # <<>>
        /\ editor = gLocal.editorBefore
        /\ gStoreChanged = {}

-----------------------------------------------------------------------------
(* Read failures during expansion, checked under SpecExpand.               *)

\* the reference of trace entry k resolves to a note whose read fails
ReadFailsAt(k) ==
    /\ Resolved(xTrace[k].link, xTrace[k].source) # None
    /\ Resolved(xTrace[k].link, xTrace[k].source)[1] \in xInput.unreadable

\* the references of the top-level call that the loop has handled
HandledAtTop == { k \in 1..Len(xTrace) : xTrace[k].source = RootNote /\ xTrace[k].depth = 0 }

\* C19: when reading one linked note fails during expand, that reference
\* contributes nothing to the result, the remaining references are still
\* processed, and the top-level call returns normally with a text that
\* starts with the original text.
C19_ReadFailureSkipsOneReference ==
    /\ \A k \in 1..Len(xLog) : xLog[k].target \notin xInput.unreadable
    /\ \A k \in 1..Len(xTrace) : ReadFailsAt(k) => xTrace[k].outcome # "follow"
    /\ xpc = "running" =>
          \A d \in 1..Len(xStack) : xStack[d].file \notin xInput.unreadable
    /\ xpc = "done" =>
          /\ Cardinality(HandledAtTop) = Len(xStack[1].allLinks)
          /\ Len(xResult) >= Len(xInput.content)
          /\ SubSeq(xResult, 1, Len(xInput.content)) = xInput.content
          /\ xResult = xInput.content \o BlocksFrom(1, RootNote, 0)

\* the read of C.md fails and a later reference of the same note is followed
C19_Witness ==
    /\ xpc = "done"
    /\ \E k \in 1..Len(xTrace) :
          /\ ReadFailsAt(k)
          /\ xTrace[k].outcome = "unreadable"
          /\ xTrace[k].source = RootNote
          /\ \E j \in (k + 1)..Len(xTrace) :
                /\ xTrace[j].source = RootNote
                /\ xTrace[j].outcome = "follow"
    /\ Len(xLog) >= 1
    /\ xResult # xInput.content

-----------------------------------------------------------------------------
(* Compilation of exclusion patterns, checked under SpecResolve: the       *)
(* prompt files carry exclude_patterns as a number, as newline-delimited   *)
(* text and as a list.                                                     *)

\* the raw value compile is applied to when the prompt file at path is read
RawPatternsOf(path) ==
    Coalesce(FileAt(path).fm, <<"excludePatterns", "exclude_patterns", "exclude-patterns">>)

\* the entries of a raw value of either shape
PatternEntries(raw) ==
    IF raw.t = "string" THEN SplitLines(raw.s)
    ELSE IF raw.t = "array" THEN raw.l
    ELSE <<>>

CompilesAndNotBlank(entry) == Trim(entry) # "" /\ PatternCompiles(Trim(entry))

\* C20: compile(raw), for raw a newline-delimited string or a list, returns
\* exactly one matcher per non-blank entry that compiles, in input order;
\* blank entries are ignored in both shapes, an entry that does not compile
\* is skipped, compile never throws to its caller for a value found in
\* frontmatter, and empty or undefined input yields the empty list.
C20_CompileKeepsNonBlankCompiling ==
    \A k \in 1..Len(fileReads) :
        LET path == fileReads[k] IN
        FileAt(path).kind = "file" =>
            /\ \A n \in 1..Len(notices) : notices[n] # "Could not read prompt file: " \o path
            /\ (rpc = "done" /\ rResult[1].sourcePath = Some(path)) =>
                   TrimAll(rResult[1].excludePatterns[1])
                       = TrimAll(SelectSeq(PatternEntries(RawPatternsOf(path)),
                                           CompilesAndNotBlank))

-----------------------------------------------------------------------------
(* Parameters of a prompt file, checked under SpecResolve.                 *)

\* the number a frontmatter value stands for, in tenths: a number, or a
\* numeric-looking string
NumericValue(v) ==
    IF v.t = "number" THEN Some(v.n)
    ELSE IF v.t = "string" THEN ParseFloat(Trim(v.s))
    ELSE None

\* the value the frontmatter holds under one of the aliases
RECURSIVE AliasValue(_, _)
AliasValue(fm, aliases) ==
    IF Len(fm) = 0 THEN Und
    ELSE IF \E a \in 1..Len(aliases) : aliases[a] = fm[1].k THEN fm[1].v
    ELSE AliasValue(Tail(fm), aliases)

\* the parameter a value yields under a constraint on its number
Constrained(v, allowed) ==
    IF NumericValue(v) # None /\ NumericValue(v)[1] \in allowed THEN NumericValue(v) ELSE None

PositiveIntegers == {val \in Int : val > 0 /\ val % 10 = 0}

\* the prompt resolved comes from a prompt file that sets parameters
ResolvedFromParameterFile ==
    /\ rpc = "done"
    /\ rResult # None
    /\ rResult[1].sourcePath # None
    /\ FileAt(rResult[1].sourcePath[1]).kind = "file"
    /\ AliasValue(FileAt(rResult[1].sourcePath[1]).fm, <<"num_ctx">>) # Und

\* C21: the resolved prompt carries numCtx only when num_ctx is a positive
\* integer, temperature only when the value is a number >= 0, topP only when
\* it is > 0 and repeatPenalty only when it is > 0 (numbers or numeric-looking
\* strings, under any key alias); a value failing its constraint leaves that
\* parameter absent, and resolution still succeeds with the body of the file
\* as instruction text and the other parameters intact.
C21_ParametersKeptOnlyWhenValid ==
    /\ \A k \in 1..Len(fileReads) :
          (/\ FileAt(fileReads[k]).kind = "file"
           /\ AliasValue(FileAt(fileReads[k]).fm, <<"num_ctx">>) # Und) =>
              /\ \A n \in 1..Len(notices) :
                    notices[n] # "Could not read prompt file: " \o fileReads[k]
              /\ rpc = "done" => rResult[1].sourcePath = Some(fileReads[k])
    /\ ResolvedFromParameterFile =>
          LET fm == FileAt(rResult[1].sourcePath[1]).fm
              r  == rResult[1]
          IN /\ r.numCtx = Constrained(AliasValue(fm, <<"num_ctx">>), PositiveIntegers)
             /\ r.temperature = Constrained(AliasValue(fm, <<"temperature", "temp">>),
                                            {val \in Int : val >= 0})
             /\ r.topP = Constrained(AliasValue(fm, <<"top_p", "topP", "top-p">>),
                                     {val \in Int : val > 0})
             /\ r.repeatPenalty =
                    Constrained(AliasValue(fm, <<"repeat_penalty", "repeatPenalty",
                                                 "repeat-penalty">>),
                                {val \in Int : val > 0})
             /\ r.prompt \in {"Be brief.", "Be kind."}
             /\ FindFrom(FileAt(r.sourcePath[1]).content, "\n---\n" \o r.prompt, 1) > 0
             /\ r.model = IF AliasValue(fm, <<"model">>) = Und THEN None ELSE Some("m1")
             /\ r.isContinuous =
                    IF AliasValue(fm, <<"continuous">>) = Und THEN None ELSE Some(TRUE)

\* num_ctx: 2.5 and top-p: -1 are dropped, temperature: 0 and
\* repeat-penalty: '1.2' are kept, the model and the flag are intact
C21_Witness ==
    /\ ResolvedFromParameterFile
    /\ rResult[1].numCtx = None
    /\ rResult[1].topP = None
    /\ rResult[1].temperature = Some(0)
    /\ rResult[1].repeatPenalty = Some(12)
    /\ rResult[1].model = Some("m1")
    /\ rResult[1].isContinuous = Some(TRUE)
    /\ rResult[1].prompt = "Be brief."

-----------------------------------------------------------------------------
(* Link parsing, checked under SpecExpand on the links the loop handles    *)
(* and on a list of link strings.                                          *)

HasAnchor(str) == \E k \in 1..Len(str) : CharAt(str, k) = "#"

LinkStrings == {"", "a", "a#b", "a#b#c", "#h", "a#", "H#^blk", "my note#My%20Heading"}

\* path and subpath are the two sides of the first anchor of the link
SplitsAtFirstAnchor(link) ==
    LET parsed == parseLinkReference(link) IN
    /\ ~HasAnchor(parsed.path)
    /\ IF HasAnchor(link)
       THEN parsed.subpath # None /\ parsed.path \o "#" \o parsed.subpath[1] = link
       ELSE parsed.subpath = None /\ parsed.path = link

\* C22: parse(link) always succeeds: a link without # gives path = link and
\* no subpath; a link with # gives the text before the first # as path and
\* all text after it as subpath (a#b gives path a, subpath b), and path, #
\* and subpath joined give back the link.
C22_ParseSplitsAtFirstAnchor ==
    /\ \A link \in LinkStrings : SplitsAtFirstAnchor(link)
    /\ parseLinkReference("a#b") = [path |-> "a", subpath |-> Some("b")]
    /\ parseLinkReference("a#b#c") = [path |-> "a", subpath |-> Some("b#c")]
    /\ \A k \in 1..Len(xTrace) :
          SplitsAtFirstAnchor(xTrace[k].link)
    /\ \A k \in 1..Len(xLog) :
          HasAnchor(xLog[k].link) => xLog[k].target = "H.md"

\* a link with an anchor is followed to the note named before the anchor
C22_Witness ==
    /\ xpc = "done"
    /\ \E k \in 1..Len(xLog) : xLog[k].link = "H#^blk" /\ xLog[k].target = "H.md"
    /\ \E k \in 1..Len(xTrace) : xTrace[k].link = "C" /\ xTrace[k].outcome = "follow"

-----------------------------------------------------------------------------
(* Order, extraction and nesting of the blocks appended by expansion,      *)
(* checked under SpecExpand.                                               *)

\* the references of the root note, in the order they occur in the note
RootRefs == xCache[RootNote].refs

\* where the reference behind a block of the root occurs in the note
PositionInRoot(e) ==
    CHOOSE k \in 1..Len(RootRefs) :
        /\ RootRefs[k].link = e.link
        /\ RootRefs[k].embed = e.embed
        /\ \A j \in 1..(k - 1) : RootRefs[j].link # e.link \/ RootRefs[j].embed # e.embed

\* the blocks appended to the text of the root, in the order appended
RootBlocks == { k \in 1..Len(xLog) : xLog[k].source = RootNote /\ xLog[k].depth = 0 }

\* C25: with includeLinks = true the quoted blocks appended to the output
\* appear in the order in which their references occur in the note, whether
\* a reference is a plain wiki-link or an embed.
C25_BlocksInEncounterOrder ==
    (xpc = "done" /\ xInput.includeLinks) =>
        \A i, j \in RootBlocks :
            i < j => PositionInRoot(xLog[i]) < PositionInRoot(xLog[j])

\* the part of H.md a subpath refers to: the section of a heading (from
\* just after the heading to the next heading of equal or shallower level, or
\* the end), the line of a block, nothing when the note has no such heading
\* or block
ReferencedPartOfH(subpath) ==
    CASE subpath = "One"  -> "one\n## Sub\nsub"
      [] subpath = "Sub"  -> "sub"
      [] subpath = "Two"  -> "two ^blk"
      [] subpath = "^blk" -> "two ^blk"
      [] OTHER            -> ""

\* C26: for a reference path#subpath with any subpath (existing or missing
\* heading, existing or missing block) the snippet appended is built only
\* from the referenced part of the target note: it contains no text of the
\* note outside that part and no content of notes referenced only from
\* outside that part.  In H.md no part named by a subpath holds a reference.
C26_SnippetIsReferencedPart ==
    \A k \in 1..Len(xLog) :
        (xLog[k].target = "H.md" /\ parseLinkReference(xLog[k].link).subpath # None) =>
            Trim(xLog[k].text) = ReferencedPartOfH(parseLinkReference(xLog[k].link).subpath[1])

\* number of > markers at the start of a line, spaces between them allowed
RECURSIVE LeadingMarkers(_)
LeadingMarkers(line) ==
    IF Len(line) > 0 /\ CharAt(line, 1) = ">" THEN 1 + LeadingMarkers(SubSeq(line, 2, Len(line)))
    ELSE IF Len(line) > 1 /\ CharAt(line, 1) = " " /\ LeadingMarkers(SubSeq(line, 2, Len(line))) > 0
    THEN LeadingMarkers(SubSeq(line, 2, Len(line)))
    ELSE 0

\* the line without its markers and the spaces around them
RECURSIVE WithoutMarkers(_)
WithoutMarkers(line) ==
    IF Len(line) > 0 /\ CharAt(line, 1) \in {">", " "}
    THEN WithoutMarkers(SubSeq(line, 2, Len(line)))
    ELSE line

ResultLines == SplitLines(xResult)

\* the depths at which a block was appended for the link
DepthsOf(link) == { xLog[k].depth : k \in { j \in 1..Len(xLog) : xLog[j].link = link } }

\* C27: in the text returned by a top-level expand call every line of the
\* block of a note included at recursion depth d starts with exactly d + 1
\* markers: 1 for a note referenced by the root, 2 for a depth-1 block nested
\* inside a depth-0 block.  Stated on the header line of each block and on
\* the line after it.
C27_MarkersEncodeDepth ==
    xpc = "done" =>
        \A n \in 1..Len(ResultLines) : \A k \in 1..Len(xLog) :
            (/\ WithoutMarkers(ResultLines[n]) = "[!embedded-note] " \o xLog[k].link
             /\ DepthsOf(xLog[k].link) = {xLog[k].depth}) =>
                /\ LeadingMarkers(ResultLines[n]) = xLog[k].depth + 1
                /\ n < Len(ResultLines)
                /\ LeadingMarkers(ResultLines[n + 1]) = xLog[k].depth + 1

-----------------------------------------------------------------------------
(* Lines at the depth of an excluded callout, checked under SpecFilter.    *)

\* line i is the header of an excluded callout and is dropped
DroppedHeaderAt(i) == ExcludedHeaderAt(i) /\ i \notin KeptLines

\* C24 as stated: while an excluded callout opened at depth d is dropped, a
\* subsequent line at depth d is kept if and only if it is a new callout
\* header separated from the excluded block by a blank line; every other line
\* at depth d is dropped.
C24_SameDepthKeptIffSeparatedHeader ==
    (fpc = "done" /\ ListedTypes # {}) =>
        \A i \in 1..Len(InputLines) : \A j \in (i + 1)..Len(InputLines) :
            (/\ DroppedHeaderAt(i)
             /\ DepthAt(j) = DepthAt(i)
             /\ RunFrom(i, j - 2)
             /\ DepthAt(j - 1) >= DepthAt(i) \/ BlankAt(j - 1)) =>
                /\ j \in KeptLines => AnyHeaderAt(j) /\ BlankAt(j - 1)
                /\ (AnyHeaderAt(j) /\ BlankAt(j - 1) /\ ~ExcludedHeaderAt(j)) => j \in KeptLines

\* C24: while an excluded callout opened at depth d is dropped, every
\* subsequent line at depth d or deeper is dropped, callout header or not,
\* up to the first shallower line.  A blank line has depth 0 and ends the
\* exclusion: it is kept, and the line after it is kept unless it is the
\* header of an excluded callout.
C24_SameDepthDroppedUntilShallower ==
    (fpc = "done" /\ ListedTypes # {}) =>
        \A i \in 1..Len(InputLines) :
            DroppedHeaderAt(i) =>
                /\ \A j \in (i + 1)..Len(InputLines) : RunFrom(i, j) => j \notin KeptLines
                /\ \A j \in (i + 2)..Len(InputLines) :
                      (RunFrom(i, j - 2) /\ BlankAt(j - 1)) =>
                          /\ (j - 1) \in KeptLines
                          /\ ~ExcludedHeaderAt(j) => j \in KeptLines

\* a header and a plain line at the depth of the excluded callout are
\* dropped; after the blank line the quoted line and the header are kept
C24_Witness ==
    /\ fpc = "done"
    /\ fIn.content = "> [!ai] Q\n> [!note] n\n> a\n\n> plain\n> [!tip] t"
    /\ fOut = "\n> plain\n> [!tip] t"

\* the output of the listed filters applied one after the other; a name that
\* is not registered is passed over
RECURSIVE ApplyFilters(_, _)
ApplyFilters(names, content) ==
    IF Len(names) = 0 THEN content
    ELSE ApplyFilters(Tail(names),
                      IF names[1] \in RegisteredFilters
                      THEN JournalFilter(names[1], content) ELSE content)

\* the filters array of the prompt file the generation resolved, if any
FiltersOfResolved ==
    IF rResult # None /\ rResult[1].sourcePath # None
       /\ ObjGet(FileAt(rResult[1].sourcePath[1]).fm, "filters").t = "array"
    THEN Some(ObjGet(FileAt(rResult[1].sourcePath[1]).fm, "filters").l)
    ELSE None

\* C23: when the resolved prompt file's frontmatter has a filters array, the
\* text sent to Ollama is the output of the registered filters of those
\* names, applied to the document text one after the other in the order listed
C23_ListedFiltersApplied ==
    (gpc = "generating" /\ FiltersOfResolved # None)
        => gRequests[Len(gRequests)].prompt
               = ApplyFilters(FiltersOfResolved[1], gLocal.documentText)

-----------------------------------------------------------------------------
(* Properties of two generations in flight, checked under SpecOverlap.     *)

\* both generations finished with a non-empty token list, for one key
BothStoredTokens ==
    /\ oGen # <<>>
    /\ \A g \in Generations :
          /\ oGen[g].pc = "done"
          /\ oGen[g].result # None
          /\ oGen[g].result[1] # <<>>
          /\ oGen[g].contextKey # None
    /\ oGen[1].contextKey = oGen[2].contextKey

\* both were suspended at the inference call together, after reading the
\* same prior tokens
Overlapped ==
    /\ Len(oLog) = 4
    /\ oLog[1].event = "read"
    /\ oLog[2].event = "read"
    /\ oGen[1].context = oGen[2].context

\* the generation whose inference call returned last
LastReturned == oLog[Len(oLog)].g

\* the later put wins: right after the last return the key's entry holds the
\* tokens of that generation
LaterPutWins ==
    LET store == oGen[LastReturned].after
        key   == oGen[LastReturned].contextKey[1]
    IN /\ key \in DOMAIN store
       /\ store[key].context = oGen[LastReturned].result[1]

\* C28 as stated: when two overlapping continuous generations of one key both
\* finish with non-empty token lists, the key's entry holds the tokens of the
\* generation that returned last, and the generations changed no entry of
\* another key.
C28_LaterPutWinsOthersUntouched ==
    (BothStoredTokens /\ Overlapped) =>
        /\ LaterPutWins
        /\ oChanged \subseteq {oGen[1].contextKey[1]}

\* C28: when two overlapping continuous generations of one key both finish
\* with non-empty token lists, the key's entry holds the tokens of the
\* generation that returned last, and the only change the generations made to
\* entries of other keys is the removal of entries older than 30 minutes.
C28_LaterPutWinsOthersOnlyExpire ==
    (BothStoredTokens /\ Overlapped) =>
        /\ LaterPutWins
        /\ \A key \in oChanged \ {oGen[1].contextKey[1]} :
              \E g \in Generations :
                 /\ key \in DOMAIN oGen[g].before
                 /\ key \notin DOMAIN oGen[g].after
                 /\ oGen[g].returnedAt - oGen[g].before[key].timestamp > 30 * Minute

\* both generations read the tokens <<9>>, generation 1 returned last, and
\* an entry of another key is still in the store
C28_Witness ==
    /\ BothStoredTokens
    /\ Overlapped
    /\ oGen[1].context = Some(<<9>>)
    /\ LastReturned = 1
    /\ oLog[3].g = 2
    /\ "B.md::p1.md" \in DOMAIN promptContexts
    /\ promptContexts[oGen[1].contextKey[1]].context = <<11>>

-----------------------------------------------------------------------------
(* Properties of the settings tab and the commands, under SpecSettings.    *)

\* the settings as last saved: those last handed to saveData, or the
\* defaults when nothing was ever saved
LastSaved ==
    IF savedData = None THEN SettingsWith(None) @@ [excludeLinkPatterns |-> None]
    ELSE savedData[1]

\* C29: the plugin's live settings change only at Save or hide, and Reset
\* makes the staged copy equal to the settings as last saved.
C29_EditsStagedUntilSave ==
    [][ /\ (settings' # settings => lastEvent' \in {"save", "hide"})
        /\ (lastEvent' = "reset" => newSettings' = Some(LastSaved')) ]_vars

\* the ids journal-<key> of the configured prompts
ConfiguredCommandIds == { "journal-" \o settings.prompts[i].k : i \in 1..Len(settings.prompts) }

\* C30: right after the layout-ready initialisation and right after every
\* saveSettings that ran to its end, the registered command ids are exactly
\* journal-<key> for the keys of settings.prompts, and this.commandIds lists
\* each of them once.
C30_CommandsMatchPrompts ==
    lastEvent \in {"layoutReady", "saved"} =>
        /\ DOMAIN registered = ConfiguredCommandIds
        /\ Range(commandIds) = ConfiguredCommandIds
        /\ \A i, j \in 1..Len(commandIds) : commandIds[i] = commandIds[j] => i = j

\* a saveSettings ran to its end after a prompt was removed and another
\* added: the command of the first is gone and that of the second is there
C30_Witness ==
    /\ lastEvent = "saved"
    /\ "journal-affirmation" \notin DOMAIN registered
    /\ "journal-custom-1" \in DOMAIN registered
    /\ registered["journal-reflection"] = "Generate L2"

====
